---- MODULE Spec2Model ----
(***************************************************************************)
(* A model of the notebooks of danjgale/psyc-917: the helper functions of  *)
(* the network-analysis and RSA notebooks (stat_map, set_color,            *)
(* set_network, test_model), the subject loop and the pickle hand-off of   *)
(* the first-level models, and the cell-by-cell execution of every         *)
(* notebook in a kernel of its own.                                        *)
(***************************************************************************)
EXTENDS Integers, Sequences, FiniteSets, TLC

(***************************************************************************)
(* Bounds of the model.                                                    *)
(***************************************************************************)
\* voxels of the largest atlas volume
MaxVoxels == 3
\* largest integer code an atlas voxel holds (0..MaxCode)
MaxCode == 2
\* longest list of labels handed to the comprehensions
MaxLabels == 2
\* longest list of subject matrices handed to test_model
MaxMats == 2

(***************************************************************************)
(* State of a kernel in which one helper is called.                        *)
(***************************************************************************)
VARIABLES
    helper,        \* the helper the cell under execution calls
    pc,            \* the position of the cell under execution
    bound,         \* the names the cell has bound so far
    exc,           \* the exception that ended the cell, "" when none
    heap,          \* the numpy arrays alive, by reference
    old,           \* the arguments as they were when the call was made
    atlas_img,     \* network notebook: the atlas image (data reference, affine)
    x,             \* stat_map's argument x (between_cent)
    img_data,      \* stat_map: reference of atlas.get_fdata()
    indices,       \* stat_map: np.unique(img_data)[1:]
    arr,           \* stat_map: reference of the array under construction
    zi,            \* stat_map: pairs of zip(x, indices) consumed
    res,           \* the image stat_map returned (data reference, affine)
    labels,        \* network notebook: the atlas labels
    acc,           \* the list a comprehension has built so far
    li,            \* labels a comprehension has consumed
    node_colors,   \* [set_color(i) for i in labels]
    node_network,  \* [set_network(i) for i in labels]
    tm_model,      \* test_model's argument model (reference of model.values)
    matrices,      \* test_model's argument subject_matrices (references)
    mi,            \* test_model: matrices consumed
    r_values       \* test_model: the list of r values

statMapVars == <<atlas_img, x, img_data, indices, arr, zi, res>>
labelVars == <<labels, acc, li, node_colors, node_network>>
testModelVars == <<tm_model, matrices, mi, r_values>>
helperVars == <<helper, pc, bound, exc, heap, old, statMapVars, labelVars, testModelVars>>

(***************************************************************************)
(* State of notebook 5's kernel, of the disk, and of the kernel of the      *)
(* notebook that loads first_level_models.p.                               *)
(***************************************************************************)
VARIABLES
    g_pc,          \* notebook 5: the statement about to run
    g_exc,         \* notebook 5: the exception that ended the last cell, "" when none
    g_bound,       \* notebook 5: the names bound in the kernel
    models,        \* notebook 5: the FirstLevelModel objects, by reference
    func_imgs,     \* notebook 5: the functional images globbed last
    conf_files,    \* notebook 5: the confound files globbed last
    motion_params, \* notebook 5: the motion tables read so far
    brain_mask,    \* notebook 5: the mask image
    model,         \* notebook 5: reference of the model made last
    events,        \* notebook 5: the events tables
    glms,          \* notebook 5: the list of model references
    si,            \* notebook 5: subjects the loop has finished
    ci,            \* notebook 5: confound files the inner loop has read
    reruns,        \* notebook 5: times the loop and save cells were run again
    pfile,         \* the disk: first_level_models.p (exists, bytes)
    lastDump,      \* the list the save cell dumped last (dumped: it has)
    reader,        \* "open" when the kernel of a notebook that reads the file is open, else ""
    rd_glms,       \* the reader's glms
    rd_bound,      \* whether the reader's glms is bound
    rd_exc,        \* the exception that ended the reader's load cell, "" when none
    rd_src         \* the list that was the last one dumped when the reader loaded

glmKernel == <<g_pc, g_exc, g_bound, models, func_imgs, conf_files, motion_params,
               brain_mask, model, events, glms, si, ci, reruns>>
diskVars == <<pfile, lastDump>>
rdVars == <<reader, rd_glms, rd_bound, rd_exc, rd_src>>
glmVars == <<glmKernel, diskVars, rdVars>>

(***************************************************************************)
(* State of the notebooks run one after the other, each in a fresh kernel. *)
(***************************************************************************)
VARIABLES
    nb,            \* the notebook open, by its place in the lesson order
    cellNo,        \* the cell about to run, by its place among the code cells
    stmtNo,        \* the statement of the cell about to run
    ns,            \* the names bound in the kernel
    failures,      \* calls that failed in this kernel
    nameErrors,    \* the names a cell of this kernel read unbound
    disk,          \* the hand-off files: who wrote each, "absent" when nobody has
    csvRead        \* who had written connectivity.csv when the network notebook read it

nbVars == <<nb, cellNo, stmtNo, ns, failures, nameErrors, disk, csvRead>>

(***************************************************************************)
(* State of the kernel of a notebook that extracts patterns from the       *)
(* loaded models (7_ROI_Analysis, the RSA notebook).                       *)
(***************************************************************************)
VARIABLES
    p_nb,            \* the notebook: "7_ROI_Analysis" or "RSA", "" when none is open
    p_pc,            \* the statement about to run
    p_exc,           \* the exception that ended the last cell, "" when none
    p_bound,         \* the names bound in the kernel
    p_glms,          \* glms as loaded: the subject each model was fitted on
    p_ci,            \* conditions already iterated over by the condition loop
    p_mi,            \* models already iterated over by `for model in glms`
    param_maps,      \* the list param_maps
    roi_data,        \* the array masker.fit_transform returned last
    pattern_list,    \* the list pattern_list (RSA)
    condition_means, \* the dict condition_means (7_ROI_Analysis), in insertion order
    pattern_array,   \* np.array(pattern_list)
    p_gi,            \* values of range(8) already iterated over by the group loop
    grp_matrices,    \* the list `matrices` of the group loop
    rdm_2,           \* the model 2 RDM
    rdm_3            \* the model 3 RDM

patVars == <<p_nb, p_pc, p_exc, p_bound, p_glms, p_ci, p_mi, param_maps, roi_data,
             pattern_list, condition_means, pattern_array, p_gi, grp_matrices,
             rdm_2, rdm_3>>

(***************************************************************************)
(* State of the kernel of the functional-connectivity notebook.            *)
(***************************************************************************)
VARIABLES
    f_pc,          \* the cell about to run
    f_exc,         \* the exception that ended the last cell, "" when none
    f_bound,       \* the names bound in the kernel
    f_scan,        \* the scan on disk: its volumes and, per volume, its confound row
    func_img,      \* the volumes of func_img
    confounds,     \* confounds: a DataFrame or an ndarray, and its rows
    fc_data        \* data, the time by region array: the volume and the row of each time point

fcVars == <<f_pc, f_exc, f_bound, f_scan, func_img, confounds, fc_data>>

vars == <<helperVars, glmVars, nbVars, patVars, fcVars>>

(***************************************************************************)
(* Python values shared by the helpers.                                    *)
(***************************************************************************)
RECURSIVE SeqSum(_)
SeqSum(s) == IF s = <<>> THEN 0 ELSE Head(s) + SeqSum(Tail(s))

RECURSIVE Product(_)
Product(s) == IF s = <<>> THEN 1 ELSE Head(s) * Product(Tail(s))

\* all sequences over S of length lo..hi
SeqsOf(S, lo, hi) == UNION {[1..n -> S] : n \in lo..hi}

\* the smallest reference not in use (a new Python object)
Alloc(h) == CHOOSE r \in 1..(Cardinality(DOMAIN h) + 1) : r \notin DOMAIN h

\* the heap h with object v stored at reference r
Store(h, r, v) == [q \in (DOMAIN h) \cup {r} |-> IF q = r THEN v ELSE h[q]]

\* the heap h without the objects at the references in R (garbage collected)
Free(h, R) == [q \in (DOMAIN h) \ R |-> h[q]]

(***************************************************************************)
(* numpy arrays: a shape and the row-major (C order) flat data.            *)
(***************************************************************************)
NdArray(shape, flat) == [shape |-> shape, flat |-> flat]

\* sorted(set(values)) as np.unique returns it
RECURSIVE SortedSeq(_)
SortedSeq(S) ==
    IF S = {} THEN <<>>
    ELSE LET m == CHOOSE a \in S : \A b \in S : a <= b
         IN <<m>> \o SortedSeq(S \ {m})

np_unique(a) == SortedSeq({a.flat[j] : j \in 1..Len(a.flat)})

\* np.where(a == i, val, a) for a scalar val
np_where_eq(a, i, val) ==
    NdArray(a.shape, [j \in 1..Len(a.flat) |-> IF a.flat[j] = i THEN val ELSE a.flat[j]])

\* zip(x, indices): as many pairs as the shorter of the two
ZipLen(xs, ys) == IF Len(xs) < Len(ys) THEN Len(xs) ELSE Len(ys)

(***************************************************************************)
(* Python strings: sequences of atoms, "_" being the separator character.  *)
(* A field of several atoms is their concatenation ("Vis" "Cent" is the    *)
(* word VisCent, which is not the word Vis).                               *)
(***************************************************************************)
\* the position of the first "_" of s, 0 when there is none
FirstSep(s) ==
    IF \E p \in 1..Len(s) : s[p] = "_"
    THEN CHOOSE p \in 1..Len(s) : s[p] = "_" /\ \A q \in 1..(p - 1) : s[q] # "_"
    ELSE 0

\* s.split('_'): the fields between the separators, at least one field
RECURSIVE Split(_)
Split(s) ==
    LET p == FirstSep(s)
    IN IF p = 0 THEN <<s>>
       ELSE <<SubSeq(s, 1, p - 1)>> \o Split(SubSeq(s, p + 1, Len(s)))

\* dict(zip(keys, vals)): a later pair of an equal key wins
DictZip(keys, vals) ==
    LET n == IF Len(keys) < Len(vals) THEN Len(keys) ELSE Len(vals)
    IN [k \in {keys[i] : i \in 1..n} |->
          vals[CHOOSE i \in 1..n : keys[i] = k /\ \A j \in (i + 1)..n : keys[j] # k]]

\* the outcome of a call: a returned value or a raised exception
Returned(v) == [ok |-> TRUE, val |-> v]
Raised(e) == [ok |-> FALSE, exc |-> e]

\* the list `networks` of set_color and set_network
networks ==
    << <<"Vis">>, <<"SomMot">>, <<"DorsAttn">>, <<"SalVentAttn">>,
       <<"Limbic">>, <<"Cont">>, <<"Default">> >>

\* the list `cmap` of set_color
cmap ==
    <<"purple", "steelblue", "green", "violet",
      "lightgoldenrodyellow", "orange", "indianred">>

\* the list `index` of set_network
index == <<1, 2, 3, 4, 5, 6, 7>>

\* a lookup with a default, as pairings.get(network_label, <first value>) would be
LookupWithDefault(pairings, s) ==
    LET fields == Split(s)
    IN IF Len(fields) < 3 THEN Raised("IndexError")
       ELSE IF fields[3] \notin DOMAIN pairings THEN Returned(pairings[networks[1]])
       ELSE Returned(pairings[fields[3]])

\* a lookup that takes the second field, x.split('_')[1], instead of the third
LookupSecondField(pairings, s) ==
    LET fields == Split(s)
    IN IF Len(fields) < 2 THEN Raised("IndexError")
       ELSE IF fields[2] \notin DOMAIN pairings THEN Raised("KeyError")
       ELSE Returned(pairings[fields[2]])

\* x.split('_')[2] followed by pairings[network_label]
Lookup(pairings, s) ==
    LET fields == Split(s)
    IN IF Len(fields) < 3 THEN Raised("IndexError")
       ELSE IF fields[3] \notin DOMAIN pairings THEN Raised("KeyError")
       ELSE Returned(pairings[fields[3]])

set_color(s) == Lookup(DictZip(networks, cmap), s)

set_network(s) == Lookup(DictZip(networks, index), s)

(***************************************************************************)
(* The RSA notebook's matrices: square arrays over the conditions.         *)
(***************************************************************************)
\* conditions = ['Arm', 'Eye', 'Finger', 'Grasp', 'Mouth', 'Speech', 'Toes', 'Touch']
conditions == <<"Arm", "Eye", "Finger", "Grasp", "Mouth", "Speech", "Toes", "Touch">>

NCond == Len(conditions)

\* rdm_1: np.zeros(shape=(8, 8)) + 1, then np.fill_diagonal(rdm_1, 0)
Rdm1Cell(i, j) == IF i = j THEN 0 ELSE 1
rdm_1 == NdArray(<<NCond, NCond>>,
    [q \in 1..(NCond * NCond) |-> Rdm1Cell(((q - 1) \div NCond) + 1, ((q - 1) % NCond) + 1)])

\* np.zeros(shape=(8, 8)) + 1
RdmSide == 8
Ones(n) == NdArray(<<n, n>>, [q \in 1..(n * n) |-> 0 + 1])

\* row and column, counted from 0, of the q-th value of an array of n columns
RowOf(q, n) == (q - 1) \div n
ColOf(q, n) == (q - 1) % n

\* np.fill_diagonal(a, v)
FillDiagonal(a, v) ==
    NdArray(a.shape, [q \in 1..Len(a.flat) |->
        IF RowOf(q, a.shape[2]) = ColOf(q, a.shape[2]) THEN v ELSE a.flat[q]])

\* every cell of the rows and of the columns named
SetPairsOuter(a, rows, cols, v) ==
    NdArray(a.shape, [q \in 1..Len(a.flat) |->
        IF /\ \E k \in 1..Len(rows) : rows[k] = RowOf(q, a.shape[2])
           /\ \E k \in 1..Len(cols) : cols[k] = ColOf(q, a.shape[2])
        THEN v ELSE a.flat[q]])

\* a[rows, cols] = v with two index tuples: the cells (rows[k], cols[k])
SetPairs(a, rows, cols, v) ==
    NdArray(a.shape, [q \in 1..Len(a.flat) |->
        IF \E k \in 1..Len(rows) : /\ rows[k] = RowOf(q, a.shape[2])
                                   /\ cols[k] = ColOf(q, a.shape[2])
        THEN v ELSE a.flat[q]])

\* a slice that takes its end in
SliceInclusive(lo, hi, n) == {k \in 0..(n - 1) : lo <= k /\ k <= hi}

\* the indices a slice lo:hi selects on an axis of length n; lo: is lo:n
Slice(lo, hi, n) == {k \in 0..(n - 1) : lo <= k /\ k < hi}

\* a[rs, cs] = v with a slice or an integer on each axis: every cell of the
\* selected rows and columns
SetBlock(a, rs, cs, v) ==
    NdArray(a.shape, [q \in 1..Len(a.flat) |->
        IF RowOf(q, a.shape[2]) \in rs /\ ColOf(q, a.shape[2]) \in cs
        THEN v ELSE a.flat[q]])

\* the array of rdm_2 before it is labelled
Rdm2Values ==
    LET n == RdmSide
        a0 == FillDiagonal(Ones(n), 0)
        a1 == SetPairs(a0, <<3, 0, 1, 2>>, <<0, 3, 2, 1>>, 0)
        a2 == SetBlock(a1, Slice(4, n, n), Slice(4, n, n), 0)
        a3 == SetBlock(a2, Slice(4, n, n), Slice(1, 3, n), 0)
    IN SetBlock(a3, Slice(1, 3, n), Slice(4, n, n), 0)

\* the array of rdm_3 before it is labelled
Rdm3Values ==
    LET n == RdmSide
        a0 == FillDiagonal(Ones(n), 0)
        a1 == SetPairs(a0, <<3, 0>>, <<0, 3>>, 0)
        a2 == SetBlock(a1, Slice(6, n, n), Slice(6, n, n), 0)
        a3 == SetBlock(a2, Slice(6, n, n), {2}, 0)
        a4 == SetBlock(a3, {2}, Slice(6, n, n), 0)
        a5 == SetBlock(a4, {1}, Slice(4, 6, n), 0)
        a6 == SetBlock(a5, Slice(4, 6, n), {1}, 0)
    IN SetBlock(a6, Slice(4, 6, n), Slice(4, 6, n), 0)

\* pd.DataFrame(a, index=idx, columns=cols, dtype=int): the values, whole
\* numbers, as integers under the row and column labels; the labels must be as
\* many as the rows and columns
DataFrame(a, idx, cols) ==
    IF a.shape # <<Len(idx), Len(cols)>> THEN Raised("ValueError")
    ELSE Returned([values |-> a, index |-> idx, columns |-> cols])

\* df[column label][row label], the way rdm[i][j] reads a labelled matrix
PosOf(l, s) == CHOOSE k \in 1..Len(s) : s[k] = l
Cell(df, c, r) ==
    df.values.flat[(PosOf(r, df.index) - 1) * Len(df.columns) + PosOf(c, df.columns)]

\* a.ravel(): the one-dimensional array of the row-major data
ravel(a) == a.flat

\* 1 - mat, a new array
OneMinus(a) == NdArray(a.shape, [q \in 1..Len(a.flat) |-> 1 - a.flat[q]])

\* stats.pearsonr(u, v)[0] as the exact pair (numerator, squared denominator):
\* r = num / sqrt(den2), and r is nan when den2 = 0
pearsonr(u, v) ==
    LET n == Len(u)
        su == SeqSum(u)
        sv == SeqSum(v)
        suv == SeqSum([q \in 1..n |-> u[q] * v[q]])
        suu == SeqSum([q \in 1..n |-> u[q] * u[q]])
        svv == SeqSum([q \in 1..n |-> v[q] * v[q]])
    IN IF Len(v) # n THEN Raised("ValueError")
       ELSE Returned([num |-> n * suv - su * sv,
                      den2 |-> (n * suu - su * su) * (n * svv - sv * sv)])

\* a subject's correlation matrix: symmetric, 1 on the diagonal, -1..1 elsewhere
CorrCell(a, i, j) == IF i = j THEN 1 ELSE ((i * j + a * (i + j)) % 3) - 1
CorrMat(a) == NdArray(<<NCond, NCond>>,
    [q \in 1..(NCond * NCond) |-> CorrCell(a, ((q - 1) \div NCond) + 1, ((q - 1) % NCond) + 1)])

(***************************************************************************)
(* The inputs the helpers are called with.                                 *)
(***************************************************************************)
Codes == 0..MaxCode

\* a value above every atlas code
Big == MaxCode + 7

\* the values of x: numbers equal to atlas codes, and one that is not
XVals == {1, MaxCode, Big}

\* the shapes of volumes of at most MaxVoxels voxels (filtered where used)
Shapes == {<<a, b>> : a \in 1..MaxVoxels, b \in 1..MaxVoxels}

AtlasArrays ==
    UNION {{NdArray(sh, f) : f \in [1..Product(sh) -> Codes]} :
              sh \in {s \in Shapes : Product(s) <= MaxVoxels}}

Affines == {"affine_2mm", "affine_1mm"}

\* the atoms labels are made of
Hemis == {<<"LH">>}
Thirds == {networks[i] : i \in 1..Len(networks)} \cup {<<"Vis", "Cent">>}
Tails == {<<"_", "1">>, <<"_", "PFC", "_", "1">>}

\* labels of the Schaefer parcellation, of a 17-network one, and malformed ones
LabelSet ==
    {<<"7Networks", "_">> \o h \o <<"_">> \o t \o e : h \in Hemis, t \in Thirds, e \in Tails}
    \cup {<<"7Networks", "_", "RH", "_", "Default", "_", "1">>,
          <<"Background">>, <<"7Networks", "_", "LH">>}

\* the subject matrices test_model is called with
MatFamily == {CorrMat(a) : a \in 1..2}

(***************************************************************************)
(* stat_map(x, atlas), network notebook.                                   *)
(***************************************************************************)
NoArray == NdArray(<<>>, <<>>)
NoImage == [data |-> 0, affine |-> ""]
NoOld == [atlas |-> NoArray, x |-> <<>>, labels |-> <<>>, model |-> NoArray, mats |-> <<>>]

\* a copy that loses the shape, as img_data.ravel() would
FdataFlatten(a) == NdArray(<<Len(a.flat)>>, a.flat)

\* img_data.copy(): a new array of the same shape and data
FdataCopy(a) == NdArray(a.shape, a.flat)

\* a step that writes into the image's own array, as img_data[img_data == i] = val
\* would
StatMapStepInPlace(h, img, a, i, val) ==
    [heap |-> Store(h, img, np_where_eq(h[img], i, val)), arr |-> a]

\* arr = np.where(arr == i, val, arr): a new array, bound to arr; the array arr
\* named before is no longer referenced
StatMapStep(h, img, a, i, val) ==
    LET r == Alloc(h)
    IN [heap |-> Free(Store(h, r, np_where_eq(h[a], i, val)), {a}), arr |-> r]

\* nib.Nifti1Image(arr, atlas.affine)
Nifti1Image(a, affine) == [data |-> a, affine |-> affine]

StatMapIdle ==
    /\ atlas_img = NoImage /\ x = <<>> /\ img_data = 0 /\ indices = <<>>
    /\ arr = 0 /\ zi = 0 /\ res = NoImage

LabelsIdle ==
    /\ labels = <<>> /\ acc = <<>> /\ li = 0 /\ node_colors = <<>> /\ node_network = <<>>

TestModelIdle ==
    /\ tm_model = 0 /\ matrices = <<>> /\ mi = 0 /\ r_values = <<>>

\* the cell `atlas_img = nib.load(atlas['maps']); res = stat_map(between_cent, atlas_img)`
\* about to call stat_map
InitStatMap ==
    /\ helper = "stat_map" /\ pc = "call" /\ bound = {"atlas_img", "between_cent"} /\ exc = ""
    /\ \E a \in AtlasArrays, f \in Affines :
          /\ heap = Store(<<>>, 1, a)
          /\ atlas_img = [data |-> 1, affine |-> f]
          /\ \E v \in SeqsOf(XVals, 0, MaxCode) :
                /\ x = v
                /\ old = [NoOld EXCEPT !.atlas = a, !.x = v]
    /\ img_data = 0 /\ indices = <<>> /\ arr = 0 /\ zi = 0 /\ res = NoImage
    /\ LabelsIdle /\ TestModelIdle

\* img_data = atlas.get_fdata(); indices = np.unique(img_data)[1:]; arr = img_data.copy()
SM_Enter ==
    /\ helper = "stat_map" /\ pc = "call"
    /\ img_data' = atlas_img.data
    /\ indices' = LET u == np_unique(heap[atlas_img.data]) IN SubSeq(u, 2, Len(u))
    /\ arr' = Alloc(heap)
    /\ heap' = Store(heap, Alloc(heap), FdataCopy(heap[atlas_img.data]))
    /\ zi' = 0
    /\ pc' = "loop"
    /\ UNCHANGED <<helper, bound, exc, old, atlas_img, x, res, labelVars, testModelVars>>
    /\ UNCHANGED <<glmVars, nbVars, patVars, fcVars>>

\* one iteration of `for val, i in zip(x, indices)`
SM_Loop ==
    /\ helper = "stat_map" /\ pc = "loop" /\ zi < ZipLen(x, indices)
    /\ LET step == StatMapStep(heap, img_data, arr, indices[zi + 1], x[zi + 1])
       IN heap' = step.heap /\ arr' = step.arr
    /\ zi' = zi + 1
    /\ UNCHANGED <<helper, pc, bound, exc, old, atlas_img, x, img_data, indices, res,
                   labelVars, testModelVars>>
    /\ UNCHANGED <<glmVars, nbVars, patVars, fcVars>>

\* return nib.Nifti1Image(arr, atlas.affine), bound to res by the caller
SM_Return ==
    /\ helper = "stat_map" /\ pc = "loop" /\ zi = ZipLen(x, indices)
    /\ res' = Nifti1Image(arr, atlas_img.affine)
    /\ bound' = bound \cup {"res"}
    /\ pc' = "done"
    /\ UNCHANGED <<helper, exc, heap, old, atlas_img, x, img_data, indices, arr, zi,
                   labelVars, testModelVars>>
    /\ UNCHANGED <<glmVars, nbVars, patVars, fcVars>>

(***************************************************************************)
(* node_colors = [set_color(i) for i in labels]                            *)
(* node_network = [set_network(i) for i in labels], network notebook.      *)
(***************************************************************************)
InitLabels ==
    /\ helper = "labels" /\ pc = "node_colors" /\ bound = {"labels"} /\ exc = ""
    /\ heap = <<>>
    /\ \E l \in SeqsOf(LabelSet, 0, MaxLabels) :
          labels = l /\ old = [NoOld EXCEPT !.labels = l]
    /\ acc = <<>> /\ li = 0 /\ node_colors = <<>> /\ node_network = <<>>
    /\ StatMapIdle /\ TestModelIdle

\* one element of a comprehension over labels, r being what the call on the
\* next label gives: it returns and its value is appended, or it raises and the
\* cell ends with nothing bound by the statement
ComprehensionElem(at, r) ==
    /\ helper = "labels" /\ pc = at /\ li < Len(labels)
    /\ IF r.ok
       THEN /\ acc' = Append(acc, r.val)
            /\ li' = li + 1
            /\ UNCHANGED <<pc, exc>>
       ELSE /\ acc' = <<>>
            /\ li' = 0
            /\ pc' = "raised"
            /\ exc' = r.exc
    /\ UNCHANGED <<helper, bound, heap, old, labels, node_colors, node_network,
                   statMapVars, testModelVars>>
    /\ UNCHANGED <<glmVars, nbVars, patVars, fcVars>>

LC_ColorElem == ComprehensionElem("node_colors", set_color(labels[li + 1]))

\* the list is complete: node_colors is bound
LC_BindColors ==
    /\ helper = "labels" /\ pc = "node_colors" /\ li = Len(labels)
    /\ node_colors' = acc
    /\ bound' = bound \cup {"node_colors"}
    /\ acc' = <<>> /\ li' = 0
    /\ pc' = "node_network"
    /\ UNCHANGED <<helper, exc, heap, old, labels, node_network, statMapVars, testModelVars>>
    /\ UNCHANGED <<glmVars, nbVars, patVars, fcVars>>

LC_NetworkElem == ComprehensionElem("node_network", set_network(labels[li + 1]))

\* the list is complete: node_network is bound, and the cell ends
LC_BindNetwork ==
    /\ helper = "labels" /\ pc = "node_network" /\ li = Len(labels)
    /\ node_network' = acc
    /\ bound' = bound \cup {"node_network"}
    /\ acc' = <<>> /\ li' = 0
    /\ pc' = "done"
    /\ UNCHANGED <<helper, exc, heap, old, labels, node_colors, statMapVars, testModelVars>>
    /\ UNCHANGED <<glmVars, nbVars, patVars, fcVars>>

(***************************************************************************)
(* test_model(model, subject_matrices), RSA notebook.                      *)
(***************************************************************************)
\* the references 2, 3, ... of the heap: the subject matrices, in order
MatRefs(n) == [k \in 1..n |-> k + 1]

\* the values of the three model RDMs test_model is called with
ModelFamily == {rdm_1, Rdm2Values, Rdm3Values}

InitTestModel ==
    /\ helper = "test_model" /\ pc = "call" /\ exc = ""
    /\ bound = {"rdm_1", "rdm_2", "rdm_3", "matrices"}
    /\ \E ms \in SeqsOf(MatFamily, 0, MaxMats), mdl \in ModelFamily :
          /\ heap = [r \in 1..(Len(ms) + 1) |-> IF r = 1 THEN mdl ELSE ms[r - 1]]
          /\ matrices = MatRefs(Len(ms))
          /\ old = [NoOld EXCEPT !.model = mdl, !.mats = ms]
    /\ tm_model = 1 /\ mi = 0 /\ r_values = <<>>
    /\ StatMapIdle /\ LabelsIdle

\* the step with the subject's values read from the last to the first
TestModelStepMispaired(h, m, mat) ==
    LET r == Alloc(h)
        h2 == Store(h, r, OneMinus(h[mat]))
        v == ravel(h2[r])
    IN [heap |-> Free(h2, {r}),
        r |-> pearsonr(ravel(h2[m]), [q \in 1..Len(v) |-> v[Len(v) + 1 - q]])]

\* rdm = 1 - mat; r, p = stats.pearsonr(model.values.ravel(), rdm.ravel()):
\* rdm is a new array, dropped when the iteration ends
TestModelStep(h, m, mat) ==
    LET r == Alloc(h)
        h2 == Store(h, r, OneMinus(h[mat]))
    IN [heap |-> Free(h2, {r}), r |-> pearsonr(ravel(h2[m]), ravel(h2[r]))]

\* r_values = []
TM_Enter ==
    /\ helper = "test_model" /\ pc = "call"
    /\ r_values' = <<>> /\ mi' = 0
    /\ pc' = "loop"
    /\ UNCHANGED <<helper, bound, exc, heap, old, tm_model, matrices, statMapVars, labelVars>>
    /\ UNCHANGED <<glmVars, nbVars, patVars, fcVars>>

\* one iteration of `for mat in subject_matrices`
TM_Iter ==
    /\ helper = "test_model" /\ pc = "loop" /\ mi < Len(matrices)
    /\ LET step == TestModelStep(heap, tm_model, matrices[mi + 1])
       IN /\ heap' = step.heap
          /\ IF step.r.ok
             THEN /\ r_values' = Append(r_values, step.r.val)
                  /\ mi' = mi + 1
                  /\ UNCHANGED <<pc, exc>>
             ELSE /\ pc' = "raised"
                  /\ exc' = step.r.exc
                  /\ UNCHANGED <<r_values, mi>>
    /\ UNCHANGED <<helper, bound, old, tm_model, matrices, statMapVars, labelVars>>
    /\ UNCHANGED <<glmVars, nbVars, patVars, fcVars>>

\* return r_values
TM_Return ==
    /\ helper = "test_model" /\ pc = "loop" /\ mi = Len(matrices)
    /\ pc' = "done"
    /\ UNCHANGED <<helper, bound, exc, heap, old, testModelVars, statMapVars, labelVars>>
    /\ UNCHANGED <<glmVars, nbVars, patVars, fcVars>>


(***************************************************************************)
(* 5_First_Level_GLM: the walkthrough, the subject loop and the save cell, *)
(* and the kernels of the notebooks that load first_level_models.p.        *)
(***************************************************************************)
\* runs (functional images, confound tables, events files) per subject
NRuns == 1
\* times the loop cell and the save cell are run again after the first pass
MaxReruns == 1

\* subject_numbers = ['01', '02', '03', '04', '05', '06', '07', '08']
subject_numbers == <<"01", "02", "03", "04", "05", "06", "07", "08">>

NSubj == Len(subject_numbers)

\* a glob whose template is not formatted with the subject and keeps matching
\* the walkthrough's sub-01
GlobWalkthroughSubject(kind, subject) == [r \in 1..NRuns |-> <<kind, "01", r>>]

\* sorted(glob.glob(template)): the files of one kind of one subject, by run
Glob(kind, subject) == [r \in 1..NRuns |-> <<kind, subject, r>>]

\* sorted(glob.glob('data/task-motor*events.tsv')): one events file per run
EventFiles == [r \in 1..NRuns |-> <<"events", r>>]

\* pd.read_table(conf, usecols=columns): the six motion columns of the file
read_table(file) == <<"motion", file[2], file[3]>>

\* FirstLevelModel(..., mask_img=brain_mask): a new, unfitted model
FirstLevelModel(mask) ==
    [fitted |-> FALSE, imgs |-> <<>>, confounds |-> <<>>, events |-> <<>>, mask |-> mask]

\* model.fit(func_imgs, events=events, confounds=motion_params) when it succeeds
Fit(m, imgs, ev, conf) ==
    [m EXCEPT !.fitted = TRUE, !.imgs = imgs, !.events = ev, !.confounds = conf]

\* the cell a statement belongs to
CellOf(at) ==
    IF at = "w_read" THEN "w_conf"
    ELSE IF at = "w_evread" THEN "w_events"
    ELSE IF at \in {"l_init", "l_glob", "l_conf", "l_model", "l_fit", "l_append"} THEN "loop"
    ELSE IF at \in {"save_open", "save_dump"} THEN "save"
    ELSE at

\* the first statement of the cell after `cell`
NextCell(cell) ==
    CASE cell = "w_func" -> "w_conf"
      [] cell = "w_conf" -> "w_mask"
      [] cell = "w_mask" -> "w_model"
      [] cell = "w_model" -> "w_events"
      [] cell = "w_events" -> "w_fit"
      [] cell = "w_fit" -> "l_init"
      [] cell = "loop" -> "save_open"
      [] cell = "save" -> "end"

\* a loop cell that caught the failure and went on with the next pass of the loop
OnFailureContinue(cell) == IF cell = "loop" THEN "l_glob" ELSE NextCell(cell)

\* where execution goes when a statement of `cell` raises: nothing catches it,
\* the cell ends and the next cell is the next to run
OnFailure(cell) == NextCell(cell)

\* the statement at g_pc raises e
Raise(e) == g_pc' = OnFailure(CellOf(g_pc)) /\ g_exc' = e

\* the statement at g_pc reads the names in R, of which one is unbound
NameErrorAt(R) == ~(R \subseteq g_bound)

\* the names a cell's statements have bound, kept when a later statement raises
bindings == <<g_bound, models, func_imgs, conf_files, motion_params, brain_mask,
              model, events, glms, si, ci>>

NoEvents == [id |-> 0, items |-> <<>>]
NoFile == [exists |-> FALSE, bytes |-> <<>>]

\* a fresh kernel at the first cell after the imports; nothing saved on disk
InitGLMKernel ==
    /\ g_pc = "w_func" /\ g_exc = "" /\ g_bound = {} /\ models = <<>>
    /\ func_imgs = <<>> /\ conf_files = <<>> /\ motion_params = <<>>
    /\ brain_mask = "" /\ model = 0 /\ events = NoEvents /\ glms = <<>>
    /\ si = 0 /\ ci = 0 /\ reruns = 0

InitGLM ==
    /\ InitGLMKernel
    /\ pfile = NoFile
    /\ lastDump = [dumped |-> FALSE, list |-> <<>>]
    /\ reader = "" /\ rd_glms = <<>> /\ rd_bound = FALSE /\ rd_exc = "" /\ rd_src = <<>>

\* func_data = glob.glob(glob_template); func_imgs = sorted(list(func_data))
W_Func ==
    /\ g_pc = "w_func"
    /\ func_imgs' = Glob("bold", "01")
    /\ g_bound' = g_bound \cup {"func_imgs"}
    /\ g_pc' = NextCell("w_func") /\ g_exc' = ""
    /\ UNCHANGED <<models, conf_files, motion_params, brain_mask, model, events, glms,
                   si, ci, reruns>>
    /\ UNCHANGED <<diskVars, rdVars, helperVars, nbVars, patVars, fcVars>>

\* conf_files = sorted(list(glob.glob(glob_template))); motion_params = []
W_Conf ==
    /\ g_pc = "w_conf"
    /\ conf_files' = Glob("confounds", "01")
    /\ motion_params' = <<>> /\ ci' = 0
    /\ g_bound' = g_bound \cup {"conf_files", "motion_params"}
    /\ g_pc' = "w_read" /\ g_exc' = ""
    /\ UNCHANGED <<models, func_imgs, brain_mask, model, events, glms, si, reruns>>
    /\ UNCHANGED <<diskVars, rdVars, helperVars, nbVars, patVars, fcVars>>

\* one iteration of `for conf in conf_files`: pd.read_table returns and the table
\* is appended, or it raises; `done` is the statement after the loop
ReadConf(at, done) ==
    /\ g_pc = at /\ ci < Len(conf_files)
    /\ \/ /\ motion_params' = Append(motion_params, read_table(conf_files[ci + 1]))
          /\ ci' = ci + 1
          /\ g_pc' = (IF ci + 1 = Len(conf_files) THEN done ELSE at)
          /\ UNCHANGED g_exc
       \/ /\ Raise("ParserError")
          /\ UNCHANGED <<motion_params, ci>>
    /\ UNCHANGED <<g_bound, models, func_imgs, conf_files, brain_mask, model, events,
                   glms, si, reruns>>
    /\ UNCHANGED <<diskVars, rdVars, helperVars, nbVars, patVars, fcVars>>

W_Read == ReadConf("w_read", NextCell("w_conf"))

\* brain_mask = nib.load('MNI_brain_mask.nii.gz')
W_Mask ==
    /\ g_pc = "w_mask"
    /\ \/ /\ brain_mask' = "MNI_brain_mask.nii.gz"
          /\ g_bound' = g_bound \cup {"brain_mask"}
          /\ g_pc' = NextCell("w_mask") /\ g_exc' = ""
       \/ /\ Raise("FileNotFoundError")
          /\ UNCHANGED <<brain_mask, g_bound>>
    /\ UNCHANGED <<models, func_imgs, conf_files, motion_params, model, events, glms,
                   si, ci, reruns>>
    /\ UNCHANGED <<diskVars, rdVars, helperVars, nbVars, patVars, fcVars>>

\* the objects of h that the references in R keep alive (the others are collected)
Collect(h, R) == [q \in (DOMAIN h) \cap R |-> h[q]]

\* model = FirstLevelModel(..., mask_img=brain_mask): a new object bound to model
\* (the model it named before lives on only if glms holds it); `next` is the
\* statement that follows
NewModel(at, next) ==
    /\ g_pc = at
    /\ IF NameErrorAt({"brain_mask"})
       THEN /\ Raise("NameError")
            /\ UNCHANGED <<models, model, g_bound>>
       ELSE /\ model' = Alloc(models)
            /\ models' = Collect(Store(models, Alloc(models), FirstLevelModel(brain_mask)),
                                 {Alloc(models)} \cup {glms[i] : i \in 1..Len(glms)})
            /\ g_bound' = g_bound \cup {"model"}
            /\ g_pc' = next /\ g_exc' = ""
    /\ UNCHANGED <<func_imgs, conf_files, motion_params, brain_mask, events, glms,
                   si, ci, reruns>>
    /\ UNCHANGED <<diskVars, rdVars, helperVars, nbVars, patVars, fcVars>>

W_Model == NewModel("w_model", NextCell("w_model"))

\* event_files = sorted(list(glob.glob(...))); events = []
W_Events ==
    /\ g_pc = "w_events"
    /\ events' = [id |-> 1, items |-> <<>>]
    /\ g_bound' = g_bound \cup {"event_files", "events"}
    /\ g_pc' = "w_evread" /\ g_exc' = ""
    /\ UNCHANGED <<models, func_imgs, conf_files, motion_params, brain_mask, model,
                   glms, si, ci, reruns>>
    /\ UNCHANGED <<diskVars, rdVars, helperVars, nbVars, patVars, fcVars>>

\* one iteration of `for ev in event_files: events.append(pd.read_table(ev))`
W_EvRead ==
    /\ g_pc = "w_evread" /\ Len(events.items) < Len(EventFiles)
    /\ \/ /\ events' = [events EXCEPT !.items = Append(@, EventFiles[Len(events.items) + 1])]
          /\ g_pc' = (IF Len(events.items) + 1 = Len(EventFiles)
                      THEN NextCell("w_events") ELSE "w_evread")
          /\ UNCHANGED g_exc
       \/ /\ Raise("ParserError")
          /\ UNCHANGED events
    /\ UNCHANGED <<g_bound, models, func_imgs, conf_files, motion_params, brain_mask,
                   model, glms, si, ci, reruns>>
    /\ UNCHANGED <<diskVars, rdVars, helperVars, nbVars, patVars, fcVars>>

\* one events table and one confound table per run: what model.fit checks first
FitCanSucceed(imgs, ev, conf) == Len(ev.items) = Len(imgs) /\ Len(conf) = Len(imgs)

\* a loop that passed a list of its own, built per subject, to model.fit
FitEventsOwnList(ev, subject) == [id |-> ev.id + 1, items |-> ev.items]

\* the events argument of model.fit in the subject loop: the name `events`
FitEvents(ev, subject) == ev

\* model.fit(func_imgs, events=ev, confounds=motion_params); `next` follows
FitModel(at, next, ev) ==
    /\ g_pc = at
    /\ IF NameErrorAt({"model", "func_imgs", "events", "motion_params"})
       THEN /\ Raise("NameError")
            /\ UNCHANGED models
       ELSE \/ /\ FitCanSucceed(func_imgs, ev, motion_params)
               /\ models' = [models EXCEPT ![model] = Fit(@, func_imgs, ev, motion_params)]
               /\ g_pc' = next /\ g_exc' = ""
            \/ /\ Raise("ValueError")
               /\ UNCHANGED models
    /\ UNCHANGED <<g_bound, func_imgs, conf_files, motion_params, brain_mask, model,
                   events, glms, si, ci, reruns>>
    /\ UNCHANGED <<diskVars, rdVars, helperVars, nbVars, patVars, fcVars>>

W_Fit == FitModel("w_fit", NextCell("w_fit"), events)

(***************************************************************************)
(* The subject loop cell.                                                  *)
(***************************************************************************)
\* motion_params = [] at the top of every iteration
LoopMotionInit(mp) == <<>>

\* subject_numbers = [...]; columns = [...]; glms = []
\* (also the cell run again once the notebook has been run to its end)
L_Init ==
    /\ \/ g_pc = "l_init" /\ UNCHANGED reruns
       \/ g_pc = "end" /\ reruns < MaxReruns /\ reruns' = reruns + 1
    /\ glms' = <<>> /\ si' = 0
    /\ models' = Collect(models, {model})
    /\ g_bound' = g_bound \cup {"subject_numbers", "columns", "glms"}
    /\ g_pc' = "l_glob" /\ g_exc' = ""
    /\ UNCHANGED <<func_imgs, conf_files, motion_params, brain_mask, model,
                   events, ci>>
    /\ UNCHANGED <<diskVars, rdVars, helperVars, nbVars, patVars, fcVars>>

\* for subject in subject_numbers: the two globs and motion_params = []
L_Glob ==
    /\ g_pc = "l_glob" /\ si < NSubj
    /\ func_imgs' = Glob("bold", subject_numbers[si + 1])
    /\ conf_files' = Glob("confounds", subject_numbers[si + 1])
    /\ motion_params' = LoopMotionInit(motion_params) /\ ci' = 0
    /\ g_bound' = g_bound \cup {"subject", "func_imgs", "conf_files", "motion_params"}
    /\ g_pc' = "l_conf"
    /\ UNCHANGED <<g_exc, models, brain_mask, model, events, glms, si, reruns>>
    /\ UNCHANGED <<diskVars, rdVars, helperVars, nbVars, patVars, fcVars>>

L_Conf == ReadConf("l_conf", "l_model")

L_Model == NewModel("l_model", "l_fit")

L_Fit == FitModel("l_fit", "l_append", FitEvents(events, subject_numbers[si + 1]))

\* glms.append(model), and the next subject or the end of the cell
L_Append ==
    /\ g_pc = "l_append"
    /\ glms' = Append(glms, model)
    /\ si' = si + 1
    /\ g_pc' = (IF si + 1 = NSubj THEN NextCell("loop") ELSE "l_glob")
    /\ UNCHANGED <<g_exc, g_bound, models, func_imgs, conf_files, motion_params,
                   brain_mask, model, events, ci, reruns>>
    /\ UNCHANGED <<diskVars, rdVars, helperVars, nbVars, patVars, fcVars>>

(***************************************************************************)
(* pickle: the bytes of a list of models, and the list of some bytes.      *)
(***************************************************************************)
\* a counted sequence of tokens
PickleSeq(q) == << <<"N", Len(q)>> >> \o q

PickleModel(m) ==
    << <<"OBJ", m.fitted>> >> \o PickleSeq(m.imgs) \o PickleSeq(m.confounds)
       \o << <<"EV", m.events.id>> >> \o PickleSeq(m.events.items)
       \o << <<"MASK", m.mask>> >>

RECURSIVE PickleAll(_)
PickleAll(list) ==
    IF list = <<>> THEN <<>> ELSE PickleModel(Head(list)) \o PickleAll(Tail(list))

\* pickle.dumps(list)
Pickle(list) == << <<"LIST", Len(list)>> >> \o PickleAll(list) \o << <<"STOP">> >>

\* the token at position p is there and carries the tag
TagAt(b, p, tag) == p <= Len(b) /\ b[p][1] = tag

\* a counted sequence read at position p: its tokens and the position after it
ReadSeq(b, p) ==
    IF TagAt(b, p, "N") /\ p + b[p][2] <= Len(b)
    THEN [ok |-> TRUE, val |-> SubSeq(b, p + 1, p + b[p][2]), next |-> p + b[p][2] + 1]
    ELSE [ok |-> FALSE, val |-> <<>>, next |-> p]

\* a model read at position p
ReadModel(b, p) ==
    LET imgs == ReadSeq(b, p + 1)
        conf == ReadSeq(b, imgs.next)
        evs == ReadSeq(b, conf.next + 1)
    IN IF /\ TagAt(b, p, "OBJ") /\ imgs.ok /\ conf.ok
          /\ TagAt(b, conf.next, "EV") /\ evs.ok /\ TagAt(b, evs.next, "MASK")
       THEN [ok |-> TRUE,
             val |-> [fitted |-> b[p][2], imgs |-> imgs.val, confounds |-> conf.val,
                      events |-> [id |-> b[conf.next][2], items |-> evs.val],
                      mask |-> b[evs.next][2]],
             next |-> evs.next + 1]
       ELSE [ok |-> FALSE, val |-> FirstLevelModel(""), next |-> p]

\* n models read from position p on
RECURSIVE ReadModels(_, _, _)
ReadModels(b, p, n) ==
    IF n = 0 THEN [ok |-> TRUE, val |-> <<>>, next |-> p]
    ELSE LET m == ReadModel(b, p)
             rest == ReadModels(b, m.next, n - 1)
         IN IF m.ok /\ rest.ok
            THEN [ok |-> TRUE, val |-> <<m.val>> \o rest.val, next |-> rest.next]
            ELSE [ok |-> FALSE, val |-> <<>>, next |-> p]

\* pickle.load(f): the first pickled object of the file; bytes after its STOP
\* are not read
Unpickle(b) ==
    IF ~TagAt(b, 1, "LIST") THEN Raised("EOFError")
    ELSE LET r == ReadModels(b, 2, b[1][2])
         IN IF r.ok /\ TagAt(b, r.next, "STOP") THEN Returned(r.val)
            ELSE Raised("UnpicklingError")

(***************************************************************************)
(* The save cell, and the cells that load the file in a later notebook.    *)
(***************************************************************************)
\* open('first_level_models.p', 'ab'): the file keeps what it held
OpenForAppend(f) == [exists |-> TRUE, bytes |-> f.bytes]

\* open('first_level_models.p', 'wb'): the file exists and is empty
OpenForWrite(f) == [exists |-> TRUE, bytes |-> <<>>]

\* the models glms refers to, in list order
GlmsValue == [i \in 1..Len(glms) |-> models[glms[i]]]

\* the lengths at which a write that fails may leave the file
Cuts(b) == {0, Len(b) \div 2, Len(b) - 1}

\* with open('first_level_models.p', 'wb') as f:
SV_Open ==
    /\ g_pc = "save_open"
    /\ pfile' = OpenForWrite(pfile)
    /\ g_pc' = "save_dump" /\ g_exc' = ""
    /\ UNCHANGED <<g_bound, models, func_imgs, conf_files, motion_params, brain_mask,
                   model, events, glms, si, ci, reruns, lastDump, reader, rd_glms,
                   rd_bound, rd_exc, rd_src>>
    /\ UNCHANGED <<helperVars, nbVars, patVars, fcVars>>

\*     pickle.dump(glms, f): the bytes are written, or the write fails part way
SV_Dump ==
    /\ g_pc = "save_dump"
    /\ IF NameErrorAt({"glms"})
       THEN /\ Raise("NameError")
            /\ UNCHANGED <<pfile, lastDump>>
       ELSE \/ /\ pfile' = [pfile EXCEPT !.bytes = @ \o Pickle(GlmsValue)]
               /\ lastDump' = [dumped |-> TRUE, list |-> GlmsValue]
               /\ g_pc' = NextCell("save")
               /\ UNCHANGED g_exc
            \/ /\ \E n \in Cuts(Pickle(GlmsValue)) :
                     pfile' = [pfile EXCEPT !.bytes = @ \o SubSeq(Pickle(GlmsValue), 1, n)]
               /\ Raise("OSError")
               /\ UNCHANGED lastDump
    /\ UNCHANGED <<g_bound, models, func_imgs, conf_files, motion_params, brain_mask,
                   model, events, glms, si, ci, reruns, reader, rd_glms, rd_bound,
                   rd_exc, rd_src>>
    /\ UNCHANGED <<helperVars, nbVars, patVars, fcVars>>

\* one of the notebooks that load first_level_models.p (6_Second_Level_GLM,
\* 7_ROI_Analysis, the RSA notebook: the same two lines in each) is opened: a
\* fresh kernel, glms unbound
RD_Open ==
    /\ reader' = "open"
    /\ rd_glms' = <<>> /\ rd_bound' = FALSE /\ rd_exc' = "" /\ rd_src' = <<>>
    /\ UNCHANGED <<glmKernel, pfile, lastDump>>
    /\ UNCHANGED <<helperVars, nbVars, patVars, fcVars>>

\* with open('first_level_models.p', 'rb') as f: glms = pickle.load(f)
RD_Load ==
    /\ reader # ""
    /\ IF ~pfile.exists
       THEN /\ rd_exc' = "FileNotFoundError"
            /\ UNCHANGED <<rd_glms, rd_bound, rd_src>>
       ELSE LET r == Unpickle(pfile.bytes)
            IN IF r.ok
               THEN /\ rd_glms' = r.val
                    /\ rd_bound' = TRUE
                    /\ rd_exc' = ""
                    /\ rd_src' = lastDump.list
               ELSE /\ rd_exc' = r.exc
                    /\ UNCHANGED <<rd_glms, rd_bound, rd_src>>
    /\ UNCHANGED <<glmKernel, pfile, lastDump, reader>>
    /\ UNCHANGED <<helperVars, nbVars, patVars, fcVars>>

(***************************************************************************)
(* 7_ROI_Analysis and the RSA notebook: the condition loop over the loaded *)
(* models, and the RSA notebook's group loop.                              *)
(***************************************************************************)
\* voxels of the region of interest
NVox == 2

\* for i in range(8)
GroupRange == 8

\* model.compute_contrast(cond, output_type='effect_size'): the parameter map
\* of the subject the model was fitted on, for the condition
compute_contrast(m, c) == <<"beta", m, c>>

\* masker.fit_transform(maps): one row per map, in list order, one value per
\* voxel of the region
fit_transform(maps) ==
    [k \in 1..Len(maps) |-> [v \in 1..NVox |-> <<maps[k][2], maps[k][3], v>>]]

\* np.mean(roi_data, axis=1): one value per row
MeanRows(rows) == [k \in 1..Len(rows) |-> <<"mean", rows[k]>>]

\* the list left as it is
ParamMapsKept(pm) == pm

\* param_maps = [] at the top of every pass of the condition loop
ParamMapsInit(pm) == <<>>

\* np.array(list) of a list of two-dimensional arrays of one shape
Array3(list) ==
    [shape |-> <<Len(list),
                 IF list = <<>> THEN 0 ELSE Len(list[1]),
                 IF list = <<>> \/ list[1] = <<>> THEN 0 ELSE Len(list[1][1])>>,
     data |-> list]

\* pattern_array[i, :, :]
SubjectPatternsFirstAxis(pa, i) == pa.data[i + 1]

\* pattern_array[:, i, :] for i counted from 0: the row of index i of every
\* condition
SubjectPatterns(pa, i) == [c \in 1..pa.shape[1] |-> pa.data[c][i + 1]]

\* np.corrcoef(X): the correlation of every row of X with every row of X
corrcoef(X) ==
    [shape |-> <<Len(X), Len(X)>>,
     cells |-> [a \in 1..Len(X) |-> [b \in 1..Len(X) |-> <<"r", X[a], X[b]>>]]]

NoPatternArray == [shape |-> <<0, 0, 0>>, data |-> <<>>]
NoRdm == [values |-> NdArray(<<0, 0>>, <<>>), index |-> <<>>, columns |-> <<>>]

\* the cell a statement of these notebooks belongs to
P_CellOf(at) ==
    IF at \in {"first_use", "first_contrast"} THEN "first"
    ELSE IF at \in {"p_init", "p_reset", "p_contrast", "p_extract", "p_array"} THEN "conditions"
    ELSE IF at \in {"g_init", "g_iter", "g_array"} THEN "group"
    ELSE at

\* the first statement of the cell after `c` in notebook n
P_NextCell(n, c) ==
    CASE c = "first" -> "p_init"
      [] c = "conditions" -> (IF n = "RSA" THEN "g_init" ELSE "done")
      [] c = "group" -> "rdm2"
      [] c = "rdm2" -> "rdm3"
      [] c = "rdm3" -> "done"

\* the statement at p_pc raises e: the cell ends
P_Raise(e) == p_pc' = P_NextCell(p_nb, P_CellOf(p_pc)) /\ p_exc' = e

PatternsIdle ==
    /\ p_nb = "" /\ p_pc = "" /\ p_exc = "" /\ p_bound = {} /\ p_glms = <<>>
    /\ p_ci = 0 /\ p_mi = 0 /\ param_maps = <<>> /\ roi_data = <<>>
    /\ pattern_list = <<>> /\ condition_means = <<>> /\ pattern_array = NoPatternArray
    /\ p_gi = 0 /\ grp_matrices = <<>> /\ rdm_2 = NoRdm /\ rdm_3 = NoRdm

\* one of the two notebooks after its load cell: glms is a list notebook 5
\* dumped, the models of the first n subjects in order
InitPatterns ==
    /\ \E n \in {"7_ROI_Analysis", "RSA"} :
          /\ p_nb = n
          /\ p_pc = (IF n = "RSA" THEN "p_init" ELSE "first_use")
    /\ \E k \in 0..NSubj : p_glms = SubSeq(subject_numbers, 1, k)
    /\ p_exc = "" /\ p_bound = {"glms"}
    /\ p_ci = 0 /\ p_mi = 0 /\ param_maps = <<>> /\ roi_data = <<>>
    /\ pattern_list = <<>> /\ condition_means = <<>> /\ pattern_array = NoPatternArray
    /\ p_gi = 0 /\ grp_matrices = <<>> /\ rdm_2 = NoRdm /\ rdm_3 = NoRdm

\* 7_ROI_Analysis: cond = 'Arm'; param_maps = []
P_FirstUse ==
    /\ p_pc = "first_use"
    /\ param_maps' = <<>> /\ p_mi' = 0
    /\ p_bound' = p_bound \cup {"cond", "param_maps"}
    /\ p_pc' = (IF p_glms = <<>> THEN P_NextCell(p_nb, "first") ELSE "first_contrast")
    /\ p_exc' = ""
    /\ UNCHANGED <<p_nb, p_glms, p_ci, roi_data, pattern_list, condition_means,
                   pattern_array, p_gi, grp_matrices, rdm_2, rdm_3>>
    /\ UNCHANGED <<helperVars, glmVars, nbVars, fcVars>>

\* one pass of `for model in glms` computing the maps of condition c: the map is
\* appended, or compute_contrast raises; `after` is the statement after the loop
ContrastPass(at, c, after) ==
    /\ p_pc = at /\ p_mi < Len(p_glms)
    /\ \/ /\ param_maps' = Append(param_maps, compute_contrast(p_glms[p_mi + 1], c))
          /\ p_mi' = p_mi + 1
          /\ p_bound' = p_bound \cup {"model", "parameter_map"}
          /\ p_pc' = (IF p_mi + 1 = Len(p_glms) THEN after ELSE at)
          /\ UNCHANGED p_exc
       \/ /\ P_Raise("ValueError")
          /\ p_bound' = p_bound \cup {"model"}
          /\ UNCHANGED <<param_maps, p_mi>>
    /\ UNCHANGED <<p_nb, p_glms, p_ci, roi_data, pattern_list, condition_means,
                   pattern_array, p_gi, grp_matrices, rdm_2, rdm_3>>
    /\ UNCHANGED <<helperVars, glmVars, nbVars, fcVars>>

\* 7_ROI_Analysis: the loop of the first-use cell, for the condition Arm
P_FirstContrast == ContrastPass("first_contrast", "Arm", P_NextCell(p_nb, "first"))

\* conditions = [...], and the empty result container
P_Init ==
    /\ p_pc = "p_init"
    /\ p_ci' = 0
    /\ pattern_list' = <<>> /\ condition_means' = <<>>
    /\ p_bound' = p_bound \cup (IF p_nb = "RSA"
                                THEN {"roi_img", "conditions", "pattern_list"}
                                ELSE {"conditions", "condition_means"})
    /\ p_pc' = "p_reset" /\ p_exc' = ""
    /\ UNCHANGED <<p_nb, p_glms, p_mi, param_maps, roi_data, pattern_array, p_gi,
                   grp_matrices, rdm_2, rdm_3>>
    /\ UNCHANGED <<helperVars, glmVars, nbVars, fcVars>>

\* for cond in conditions: param_maps = []; after the last condition the loop
\* ends (and with it the cell, in 7_ROI_Analysis)
P_Reset ==
    /\ p_pc = "p_reset"
    /\ IF p_ci < NCond
       THEN /\ param_maps' = ParamMapsInit(param_maps)
            /\ p_mi' = 0
            /\ p_bound' = p_bound \cup {"cond", "param_maps"}
            /\ p_pc' = (IF p_glms = <<>> THEN "p_extract" ELSE "p_contrast")
       ELSE /\ p_pc' = (IF p_nb = "RSA" THEN "p_array" ELSE P_NextCell(p_nb, "conditions"))
            /\ UNCHANGED <<param_maps, p_mi, p_bound>>
    /\ UNCHANGED <<p_nb, p_exc, p_glms, p_ci, roi_data, pattern_list, condition_means,
                   pattern_array, p_gi, grp_matrices, rdm_2, rdm_3>>
    /\ UNCHANGED <<helperVars, glmVars, nbVars, fcVars>>

\*     for model in glms: parameter_map = model.compute_contrast(cond, ...)
P_Contrast == ContrastPass("p_contrast", conditions[p_ci + 1], "p_extract")

\*     the masker is set and fitted on param_maps, and the extracted data goes
\*     into the container (RSA: after resampling the region to param_maps[0]);
\*     resampling, fitting or extracting may raise, an empty param_maps does
P_Extract ==
    /\ p_pc = "p_extract"
    /\ \/ /\ param_maps # <<>>
          /\ roi_data' = fit_transform(param_maps)
          /\ IF p_nb = "RSA"
             THEN /\ pattern_list' = Append(pattern_list, fit_transform(param_maps))
                  /\ p_bound' = p_bound \cup {"roi", "masker", "roi_data"}
                  /\ UNCHANGED condition_means
             ELSE /\ condition_means' =
                        Append(condition_means,
                               <<conditions[p_ci + 1], MeanRows(fit_transform(param_maps))>>)
                  /\ p_bound' = p_bound \cup {"masker", "roi_data", "roi_means"}
                  /\ UNCHANGED pattern_list
          /\ p_ci' = p_ci + 1
          /\ p_pc' = "p_reset"
          /\ UNCHANGED p_exc
       \/ /\ P_Raise(IF param_maps = <<>> /\ p_nb = "RSA" THEN "IndexError" ELSE "ValueError")
          /\ UNCHANGED <<roi_data, pattern_list, condition_means, p_bound, p_ci>>
    /\ UNCHANGED <<p_nb, p_glms, p_mi, param_maps, pattern_array, p_gi, grp_matrices,
                   rdm_2, rdm_3>>
    /\ UNCHANGED <<helperVars, glmVars, nbVars, fcVars>>

\* pattern_array = np.array(pattern_list)
P_Array ==
    /\ p_pc = "p_array"
    /\ pattern_array' = Array3(pattern_list)
    /\ p_bound' = p_bound \cup {"pattern_array"}
    /\ p_pc' = P_NextCell(p_nb, "conditions")
    /\ UNCHANGED <<p_nb, p_exc, p_glms, p_ci, p_mi, param_maps, roi_data, pattern_list,
                   condition_means, p_gi, grp_matrices, rdm_2, rdm_3>>
    /\ UNCHANGED <<helperVars, glmVars, nbVars, fcVars>>

\* matrices = []
G_Init ==
    /\ p_pc = "g_init"
    /\ grp_matrices' = <<>> /\ p_gi' = 0
    /\ p_bound' = p_bound \cup {"matrices"}
    /\ p_pc' = "g_iter" /\ p_exc' = ""
    /\ UNCHANGED <<p_nb, p_glms, p_ci, p_mi, param_maps, roi_data, pattern_list,
                   condition_means, pattern_array, rdm_2, rdm_3>>
    /\ UNCHANGED <<helperVars, glmVars, nbVars, fcVars>>

\* one pass of `for i in range(8)`: corr_mat = np.corrcoef(pattern_array[:, i, :])
\* is appended; the index raises when the subject axis has no index i
G_Iter ==
    /\ p_pc = "g_iter" /\ p_gi < GroupRange
    /\ IF "pattern_array" \notin p_bound
       THEN /\ P_Raise("NameError")
            /\ p_bound' = p_bound \cup {"i"}
            /\ UNCHANGED <<grp_matrices, p_gi>>
       ELSE IF p_gi >= pattern_array.shape[2]
       THEN /\ P_Raise("IndexError")
            /\ p_bound' = p_bound \cup {"i"}
            /\ UNCHANGED <<grp_matrices, p_gi>>
       ELSE /\ grp_matrices' = Append(grp_matrices, corrcoef(SubjectPatterns(pattern_array, p_gi)))
            /\ p_gi' = p_gi + 1
            /\ p_bound' = p_bound \cup {"i", "corr_mat"}
            /\ p_pc' = (IF p_gi + 1 = GroupRange THEN "g_array" ELSE "g_iter")
            /\ UNCHANGED p_exc
    /\ UNCHANGED <<p_nb, p_glms, p_ci, p_mi, param_maps, roi_data, pattern_list,
                   condition_means, pattern_array, rdm_2, rdm_3>>
    /\ UNCHANGED <<helperVars, glmVars, nbVars, fcVars>>

\* matrices = np.array(matrices): the same matrices, in the same order
G_Array ==
    /\ p_pc = "g_array"
    /\ p_pc' = P_NextCell(p_nb, "group")
    /\ UNCHANGED <<p_nb, p_exc, p_bound, p_glms, p_ci, p_mi, param_maps, roi_data,
                   pattern_list, condition_means, pattern_array, p_gi, grp_matrices,
                   rdm_2, rdm_3>>
    /\ UNCHANGED <<helperVars, glmVars, nbVars, fcVars>>

\* the cell building rdm_2: it needs conditions, bound by the pattern cell
R2_Build ==
    /\ p_pc = "rdm2"
    /\ LET df == DataFrame(Rdm2Values, conditions, conditions)
       IN IF df.ok
          THEN rdm_2' = df.val /\ p_exc' = "" /\ p_bound' = p_bound \cup {"rdm_2"}
          ELSE rdm_2' = rdm_2 /\ p_exc' = df.exc /\ p_bound' = p_bound
    /\ p_pc' = P_NextCell(p_nb, "rdm2")
    /\ UNCHANGED <<p_nb, p_glms, p_ci, p_mi, param_maps, roi_data, pattern_list,
                   condition_means, pattern_array, p_gi, grp_matrices, rdm_3>>
    /\ UNCHANGED <<helperVars, glmVars, nbVars, fcVars>>

\* the cell building rdm_3
R3_Build ==
    /\ p_pc = "rdm3"
    /\ LET df == DataFrame(Rdm3Values, conditions, conditions)
       IN IF df.ok
          THEN rdm_3' = df.val /\ p_exc' = "" /\ p_bound' = p_bound \cup {"rdm_3"}
          ELSE rdm_3' = rdm_3 /\ p_exc' = df.exc /\ p_bound' = p_bound
    /\ p_pc' = P_NextCell(p_nb, "rdm3")
    /\ UNCHANGED <<p_nb, p_glms, p_ci, p_mi, param_maps, roi_data, pattern_list,
                   condition_means, pattern_array, p_gi, grp_matrices, rdm_2>>
    /\ UNCHANGED <<helperVars, glmVars, nbVars, fcVars>>

(***************************************************************************)
(* The functional connectivity notebook: the confounds table and the       *)
(* functional image, each without its first time point, and the masker.    *)
(***************************************************************************)
\* volumes of the resting-state scan
MaxVols == 3

\* the scan on disk: its volumes in acquisition order, and the confounds table
\* with one row per volume
ScanVolumes(t) == [k \in 1..t |-> <<"vol", k>>]
ScanConfounds(t) == [k \in 1..t |-> <<"conf", k>>]

\* image.index_img(img, slice(lo, None)): the volumes from index lo on
index_img(img, lo) == SubSeq(img, lo + 1, Len(img))

\* a[:-lo, :]
RowsUpTo(a, lo) == SubSeq(a, 1, Len(a) - lo)

\* a[lo:, :]: the rows from index lo on, every column
RowsFrom(a, lo) == SubSeq(a, lo + 1, Len(a))

NoTable == [kind |-> "", rows |-> <<>>]

\* the statement after the cell of the statement `at`
F_NextCell(at) ==
    CASE at = "atlas" -> "read"
      [] at = "read" -> "load"
      [] at = "load" -> "index"
      [] at = "index" -> "values"
      [] at = "values" -> "mask"
      [] at = "mask" -> "done"

\* the cell at f_pc ends, having raised e or, with e = "", run to its end
F_End(e) == f_pc' = F_NextCell(f_pc) /\ f_exc' = Append(f_exc, e)

FCIdle ==
    /\ f_pc = "" /\ f_exc = <<>> /\ f_bound = {} /\ f_scan = 0
    /\ func_img = <<>> /\ confounds = NoTable /\ fc_data = <<>>

\* the kernel after the import cell
InitFC ==
    /\ f_pc = "atlas" /\ f_exc = <<>>
    /\ f_bound = {"pd", "nib", "image", "NiftiLabelsMasker", "fetch_atlas_schaefer_2018"}
    /\ f_scan \in 1..MaxVols
    /\ func_img = <<>> /\ confounds = NoTable /\ fc_data = <<>>

\* atlas = fetch_atlas_schaefer_2018(...); atlas_img = nib.load(atlas['maps']):
\* the atlas is fetched, or the fetch raises
F_Atlas ==
    /\ f_pc = "atlas"
    /\ \/ /\ f_bound' = f_bound \cup {"atlas", "atlas_img"}
          /\ F_End("")
       \/ /\ F_End("OSError")
          /\ UNCHANGED f_bound
    /\ UNCHANGED <<f_scan, func_img, confounds, fc_data>>
    /\ UNCHANGED <<helperVars, glmVars, nbVars, patVars>>

\* confound_names = [...]; confounds = pd.read_table(..., usecols=confound_names)
F_Read ==
    /\ f_pc = "read"
    /\ \/ /\ confounds' = [kind |-> "DataFrame", rows |-> ScanConfounds(f_scan)]
          /\ f_bound' = f_bound \cup {"confound_names", "confounds"}
          /\ F_End("")
       \/ /\ F_End("FileNotFoundError")
          /\ f_bound' = f_bound \cup {"confound_names"}
          /\ UNCHANGED confounds
    /\ UNCHANGED <<f_scan, func_img, fc_data>>
    /\ UNCHANGED <<helperVars, glmVars, nbVars, patVars>>

\* func_img = nib.load(...)
F_Load ==
    /\ f_pc = "load"
    /\ \/ /\ func_img' = ScanVolumes(f_scan)
          /\ f_bound' = f_bound \cup {"func_img"}
          /\ F_End("")
       \/ /\ F_End("FileNotFoundError")
          /\ UNCHANGED <<func_img, f_bound>>
    /\ UNCHANGED <<f_scan, confounds, fc_data>>
    /\ UNCHANGED <<helperVars, glmVars, nbVars, patVars>>

\* func_img = image.index_img(func_img, slice(1, None))
F_Index ==
    /\ f_pc = "index"
    /\ IF "func_img" \in f_bound
       THEN func_img' = index_img(func_img, 1) /\ F_End("")
       ELSE func_img' = func_img /\ F_End("NameError")
    /\ UNCHANGED <<f_bound, f_scan, confounds, fc_data>>
    /\ UNCHANGED <<helperVars, glmVars, nbVars, patVars>>

\* confounds = confounds.values[1:, :]: an array takes the table's place; an
\* array has no .values
F_Values ==
    /\ f_pc = "values"
    /\ IF "confounds" \notin f_bound
       THEN confounds' = confounds /\ F_End("NameError")
       ELSE IF confounds.kind # "DataFrame"
       THEN confounds' = confounds /\ F_End("AttributeError")
       ELSE /\ confounds' = [kind |-> "ndarray", rows |-> RowsFrom(confounds.rows, 1)]
            /\ F_End("")
    /\ UNCHANGED <<f_bound, f_scan, func_img, fc_data>>
    /\ UNCHANGED <<helperVars, glmVars, nbVars, patVars>>

\* masker = NiftiLabelsMasker(...); data = masker.fit_transform(func_img,
\* confounds=confounds): one row of data per volume, cleaned with the confounds
\* row at the same position; the confounds must have as many rows as the image
\* has volumes
F_Mask ==
    /\ f_pc = "mask"
    /\ IF "atlas_img" \notin f_bound
       THEN /\ F_End("NameError")
            /\ UNCHANGED <<f_bound, fc_data>>
       ELSE IF ~ ({"func_img", "confounds"} \subseteq f_bound)
       THEN /\ F_End("NameError")
            /\ f_bound' = f_bound \cup {"masker"}
            /\ UNCHANGED fc_data
       ELSE IF Len(confounds.rows) # Len(func_img) \/ func_img = <<>>
       THEN /\ F_End("ValueError")
            /\ f_bound' = f_bound \cup {"masker"}
            /\ UNCHANGED fc_data
       ELSE /\ fc_data' = [k \in 1..Len(func_img) |-> <<func_img[k], confounds.rows[k]>>]
            /\ f_bound' = f_bound \cup {"masker", "data"}
            /\ F_End("")
    /\ UNCHANGED <<f_scan, func_img, confounds>>
    /\ UNCHANGED <<helperVars, glmVars, nbVars, patVars>>

(***************************************************************************)
(* The notebooks as linear scripts.  A notebook is its code cells in       *)
(* order, a cell its top-level statements in order.  Of a statement the    *)
(* tables keep the line it starts at, the names it reads before it binds   *)
(* them itself (those of the globals read by a function of the notebook    *)
(* that it calls included), the names it binds, in the order it first      *)
(* binds them, whether it calls into a library, what kind of statement it  *)
(* is, and the hand-off file it reads or writes.  IPython magics and help  *)
(* requests are not statements; imports are taken to succeed.              *)
(***************************************************************************)
\* failing library calls followed per kernel
MaxFailures == 1

S(line, reads, binds, calls, kind, fread, fwrite) ==
    [line |-> line, reads |-> reads, binds |-> binds, calls |-> calls, kind |-> kind,
     fread |-> fread, fwrite |-> fwrite]

\* src/unnamed/part_000, its code cells in order
Nb_NiftiFiles == <<
    <<
       S(22, {}, <<"nib">>, FALSE, "simple", "", ""),
       S(24, {}, <<"anat_file">>, FALSE, "simple", "", ""),
       S(25, {"nib", "anat_file"}, <<"anat_file">>, TRUE, "simple", "", ""),
       S(27, {"anat_file"}, <<>>, FALSE, "simple", "", "") >>,
    <<
       S(49, {"anat_file"}, <<>>, TRUE, "simple", "", "") >>,
    <<
       S(67, {"anat_file"}, <<>>, TRUE, "simple", "", "") >>,
    <<
       S(85, {"anat_file"}, <<"img_array">>, TRUE, "simple", "", ""),
       S(87, {"img_array"}, <<>>, FALSE, "simple", "", "") >>,
    <<
       S(105, {"anat_file"}, <<>>, TRUE, "simple", "", ""),
       S(108, {"img_array"}, <<>>, FALSE, "simple", "", "") >>,
    <<
       S(128, {}, <<"plt">>, FALSE, "simple", "", ""),
       S(130, {"plt", "img_array"}, <<>>, TRUE, "simple", "", ""),
       S(131, {"plt"}, <<>>, TRUE, "simple", "", "") >>,
    <<
       S(153, {}, <<"plotting">>, FALSE, "simple", "", ""),
       S(155, {"plotting", "anat_file"}, <<>>, TRUE, "simple", "", ""),
       S(156, {"plt"}, <<>>, TRUE, "simple", "", "") >>,
    <<
       S(172, {"plotting", "anat_file"}, <<>>, TRUE, "simple", "", ""),
       S(173, {"plt"}, <<>>, TRUE, "simple", "", "") >>,
    <<
       S(189, {"plotting", "anat_file"}, <<>>, TRUE, "simple", "", "") >>,
    <<
       S(208, {}, <<"func_file">>, FALSE, "simple", "", ""),
       S(209, {"nib", "func_file"}, <<"func_file">>, TRUE, "simple", "", "") >>,
    <<
       S(225, {}, <<"index_img">>, FALSE, "simple", "", ""),
       S(227, {"index_img", "func_file"}, <<"first_volume">>, TRUE, "simple", "", ""),
       S(228, {"plotting", "first_volume"}, <<>>, TRUE, "simple", "", "") >> >>

\* src/3_Temporal_Filtering.ipynb, its code cells in order
Nb_3_Temporal_Filtering == <<
    <<
       S(28, {}, <<"plt">>, FALSE, "simple", "", ""),
       S(29, {}, <<"nib">>, FALSE, "simple", "", ""),
       S(33, {}, <<"func_file">>, FALSE, "simple", "", ""),
       S(34, {"nib", "func_file"}, <<"func_file">>, TRUE, "simple", "", ""),
       S(35, {"func_file"}, <<>>, FALSE, "simple", "", "") >>,
    <<
       S(52, {"func_file"}, <<"data">>, TRUE, "simple", "", ""),
       S(56, {"data"}, <<"voxel1">>, TRUE, "simple", "", ""),
       S(59, {"data"}, <<"voxel2">>, TRUE, "simple", "", ""),
       S(62, {"plt"}, <<"fig", "ax">>, TRUE, "simple", "", ""),
       S(63, {"ax", "voxel1"}, <<>>, TRUE, "simple", "", ""),
       S(64, {"ax", "voxel2"}, <<>>, TRUE, "simple", "", ""),
       S(65, {"ax"}, <<>>, TRUE, "simple", "", ""),
       S(66, {"plt"}, <<>>, TRUE, "simple", "", "") >>,
    <<
       S(88, {}, <<"zscore">>, FALSE, "simple", "", ""),
       S(91, {"zscore", "voxel1"}, <<"voxel1_z">>, TRUE, "simple", "", ""),
       S(92, {"zscore", "voxel2"}, <<"voxel2_z">>, TRUE, "simple", "", ""),
       S(95, {"plt"}, <<"fig", "ax">>, TRUE, "simple", "", ""),
       S(96, {"ax", "voxel1_z"}, <<>>, TRUE, "simple", "", ""),
       S(97, {"ax", "voxel2_z"}, <<>>, TRUE, "simple", "", ""),
       S(98, {"ax"}, <<>>, TRUE, "simple", "", ""),
       S(99, {"plt"}, <<>>, TRUE, "simple", "", "") >>,
    <<
       S(124, {}, <<"clean_img">>, FALSE, "simple", "", "") >>,
    <<
       S(149, {"clean_img", "func_file"}, <<"filtered_img">>, TRUE, "simple", "", "") >>,
    <<
       S(159, {"filtered_img"}, <<"filtered_data">>, TRUE, "simple", "", ""),
       S(162, {"filtered_data"}, <<"voxel1_filtered">>, TRUE, "simple", "", ""),
       S(163, {"filtered_data"}, <<"voxel2_filtered">>, TRUE, "simple", "", ""),
       S(166, {"plt"}, <<"fig", "ax">>, TRUE, "simple", "", ""),
       S(167, {"ax", "voxel1_filtered"}, <<>>, TRUE, "simple", "", ""),
       S(168, {"ax", "voxel2_filtered"}, <<>>, TRUE, "simple", "", ""),
       S(169, {"ax"}, <<>>, TRUE, "simple", "", ""),
       S(170, {"plt"}, <<>>, TRUE, "simple", "", "") >>,
    <<
       S(188, {"clean_img", "func_file"}, <<"filtered_img_2">>, TRUE, "simple", "", ""),
       S(191, {"filtered_img_2"}, <<"filtered_data_2">>, TRUE, "simple", "", ""),
       S(192, {"filtered_data_2"}, <<"voxel1_filtered_2">>, TRUE, "simple", "", ""),
       S(195, {"plt"}, <<"fig", "ax">>, TRUE, "simple", "", ""),
       S(196, {"ax", "voxel1_filtered"}, <<>>, TRUE, "simple", "", ""),
       S(197, {"ax", "voxel1_filtered_2"}, <<>>, TRUE, "simple", "", ""),
       S(198, {"ax"}, <<>>, TRUE, "simple", "", ""),
       S(199, {"plt"}, <<>>, TRUE, "simple", "", "") >>,
    <<
       S(221, {"clean_img", "func_file"}, <<"band_img">>, TRUE, "simple", "", ""),
       S(223, {"band_img"}, <<"band_data">>, TRUE, "simple", "", ""),
       S(224, {"band_data"}, <<"voxel1_band">>, TRUE, "simple", "", ""),
       S(227, {"plt"}, <<"fig", "ax">>, TRUE, "simple", "", ""),
       S(228, {"ax", "voxel1_filtered"}, <<>>, TRUE, "simple", "", ""),
       S(229, {"ax", "voxel1_band"}, <<>>, TRUE, "simple", "", ""),
       S(230, {"ax"}, <<>>, TRUE, "simple", "", ""),
       S(231, {"plt"}, <<>>, TRUE, "simple", "", "") >> >>

\* src/unnamed/part_003, its code cells in order
Nb_SpatialSmoothing_a == <<
    <<
       S(21, {}, <<"Path">>, FALSE, "simple", "", ""),
       S(22, {}, <<"nib">>, FALSE, "simple", "", ""),
       S(23, {}, <<"smooth_img", "index_img">>, FALSE, "simple", "", ""),
       S(24, {}, <<"plot_anat">>, FALSE, "simple", "", "") >>,
    <<
       S(33, {"Path"}, <<"func_file">>, TRUE, "simple", "", ""),
       S(34, {"nib", "func_file"}, <<"func_file">>, TRUE, "simple", "", "") >>,
    <<
       S(68, {"smooth_img", "func_file"}, <<"smoothed_data">>, TRUE, "simple", "", "") >>,
    <<
       S(84, {"index_img", "func_file"}, <<"unsmoothed_vol">>, TRUE, "simple", "", ""),
       S(85, {"plot_anat", "unsmoothed_vol"}, <<>>, TRUE, "simple", "", ""),
       S(87, {"index_img", "smoothed_data"}, <<"smoothed_vol">>, TRUE, "simple", "", ""),
       S(88, {"plot_anat", "smoothed_vol"}, <<>>, TRUE, "simple", "", "") >> >>

\* src/unnamed/part_004, its code cells in order
Nb_SpatialSmoothing_b == <<
    <<
       S(25, {}, <<"nib">>, FALSE, "simple", "", ""),
       S(26, {}, <<"smooth_img", "index_img">>, FALSE, "simple", "", ""),
       S(27, {}, <<"plot_anat">>, FALSE, "simple", "", "") >>,
    <<
       S(37, {}, <<"func_file">>, FALSE, "simple", "", "") >>,
    <<
       S(73, {"smooth_img", "func_file"}, <<"smoothed_data">>, TRUE, "simple", "", "") >>,
    <<
       S(89, {"index_img", "func_file"}, <<"unsmoothed_vol">>, TRUE, "simple", "", ""),
       S(90, {"plot_anat", "unsmoothed_vol"}, <<>>, TRUE, "simple", "", ""),
       S(92, {"index_img", "smoothed_data"}, <<"smoothed_vol">>, TRUE, "simple", "", ""),
       S(93, {"plot_anat", "smoothed_vol"}, <<>>, TRUE, "simple", "", "") >> >>

\* src/5_First_Level_GLM.ipynb, its code cells in order
Nb_5_First_Level_GLM == <<
    <<
       S(52, {}, <<"glob">>, FALSE, "simple", "", ""),
       S(53, {}, <<"pickle">>, FALSE, "simple", "", ""),
       S(54, {}, <<"nib">>, FALSE, "simple", "", ""),
       S(55, {}, <<"np">>, FALSE, "simple", "", ""),
       S(56, {}, <<"pd">>, FALSE, "simple", "", ""),
       S(57, {}, <<"plt">>, FALSE, "simple", "", ""),
       S(58, {}, <<"view_img">>, FALSE, "simple", "", ""),
       S(59, {}, <<"make_first_level_design_matrix">>, FALSE, "simple", "", ""),
       S(60, {}, <<"FirstLevelModel">>, FALSE, "simple", "", ""),
       S(61, {}, <<"plot_design_matrix">>, FALSE, "simple", "", "") >>,
    <<
       S(85, {}, <<"glob_template">>, FALSE, "simple", "", ""),
       S(87, {"glob", "glob_template"}, <<"func_data">>, TRUE, "simple", "", ""),
       S(90, {"func_data"}, <<"func_imgs">>, TRUE, "simple", "", ""),
       S(91, {"func_imgs"}, <<>>, FALSE, "simple", "", "") >>,
    <<
       S(109, {}, <<"glob_template">>, FALSE, "simple", "", ""),
       S(111, {"glob", "glob_template"}, <<"conf_files">>, TRUE, "simple", "", ""),
       S(114, {"conf_files"}, <<"conf_files">>, TRUE, "simple", "", ""),
       S(117, {}, <<"motion_params">>, FALSE, "simple", "", ""),
       S(118, {"conf_files", "pd", "motion_params"}, <<"conf", "conf_data">>, TRUE, "for", "", ""),
       S(123, {"motion_params"}, <<>>, TRUE, "simple", "", "") >>,
    <<
       S(141, {"nib"}, <<"brain_mask">>, TRUE, "simple", "", "") >>,
    <<
       S(165, {"FirstLevelModel", "brain_mask"}, <<"model">>, TRUE, "simple", "", ""),
       S(168, {"model"}, <<>>, FALSE, "simple", "", "") >>,
    <<
       S(192, {"glob"}, <<"event_files">>, TRUE, "simple", "", ""),
       S(193, {"event_files"}, <<"event_files">>, TRUE, "simple", "", ""),
       S(195, {}, <<"events">>, FALSE, "simple", "", ""),
       S(196, {"event_files", "events", "pd"}, <<"ev">>, TRUE, "for", "", ""),
       S(200, {"events"}, <<>>, TRUE, "simple", "", "") >>,
    <<
       S(220, {"model", "func_imgs", "events", "motion_params"}, <<>>, TRUE, "simple", "", "") >>,
    <<
       S(236, {"model"}, <<"design">>, TRUE, "simple", "", ""),
       S(237, {"plt"}, <<"fig", "ax">>, TRUE, "simple", "", ""),
       S(238, {"plot_design_matrix", "design", "ax"}, <<>>, TRUE, "simple", "", "") >>,
    <<
       S(247, {"plt"}, <<"fig", "ax">>, TRUE, "simple", "", ""),
       S(248, {"ax", "design"}, <<>>, TRUE, "simple", "", ""),
       S(249, {"ax"}, <<>>, TRUE, "simple", "", "") >>,
    <<
       S(267, {"model"}, <<"beta_map">>, TRUE, "simple", "", ""),
       S(268, {"view_img", "beta_map"}, <<>>, TRUE, "simple", "", "") >>,
    <<
       S(295, {}, <<"subject_numbers">>, FALSE, "simple", "", ""),
       S(296, {}, <<"columns">>, FALSE, "simple", "", ""),
       S(298, {}, <<"glms">>, FALSE, "simple", "", ""),
       S(299, {"subject_numbers", "glob", "pd", "columns", "FirstLevelModel", "brain_mask", "events", "glms"}, <<"subject", "glob_template", "func_imgs", "conf_files", "motion_params", "conf", "conf_data", "model">>, TRUE, "for", "", "") >>,
    <<
       S(347, {"pickle", "glms"}, <<"f">>, TRUE, "with", "", "first_level_models.p") >> >>

\* src/6_Second_Level_GLM.ipynb, its code cells in order
Nb_6_Second_Level_GLM == <<
    <<
       S(27, {}, <<"pickle">>, FALSE, "simple", "", ""),
       S(28, {}, <<"plt">>, FALSE, "simple", "", ""),
       S(29, {}, <<"nib">>, FALSE, "simple", "", ""),
       S(30, {}, <<"SecondLevelModel">>, FALSE, "simple", "", ""),
       S(31, {}, <<"map_threshold">>, FALSE, "simple", "", ""),
       S(32, {}, <<"get_clusters_table", "plot_contrast_matrix">>, FALSE, "simple", "", ""),
       S(33, {}, <<"view_img", "plot_stat_map">>, FALSE, "simple", "", "") >>,
    <<
       S(44, {"pickle"}, <<"f", "glms">>, TRUE, "with", "first_level_models.p", "") >>,
    <<
       S(67, {"SecondLevelModel"}, <<"second_level">>, TRUE, "simple", "", ""),
       S(68, {"second_level", "glms"}, <<>>, TRUE, "simple", "", "") >>,
    <<
       S(84, {"second_level"}, <<>>, FALSE, "simple", "", "") >>,
    <<
       S(114, {"second_level"}, <<"z_map">>, TRUE, "simple", "", "") >>,
    <<
       S(134, {"plt"}, <<"fig", "ax">>, TRUE, "simple", "", ""),
       S(135, {"plot_contrast_matrix", "glms", "ax"}, <<>>, TRUE, "simple", "", "") >>,
    <<
       S(151, {"view_img", "z_map"}, <<>>, TRUE, "simple", "", "") >>,
    <<
       S(182, {"map_threshold", "z_map"}, <<"thresh_img", "thresh">>, TRUE, "simple", "", ""),
       S(185, {"thresh"}, <<>>, FALSE, "simple", "", "") >>,
    <<
       S(194, {"plot_stat_map", "thresh_img"}, <<>>, TRUE, "simple", "", "") >>,
    <<
       S(213, {"get_clusters_table", "z_map"}, <<"results">>, TRUE, "simple", "", ""),
       S(214, {"results"}, <<>>, FALSE, "simple", "", "") >>,
    <<
       S(238, {"map_threshold", "z_map"}, <<"thresh_img", "thresh">>, TRUE, "simple", "", ""),
       S(239, {"view_img", "thresh_img"}, <<>>, TRUE, "simple", "", "") >>,
    <<
       S(269, {"nib"}, <<"brain_mask">>, TRUE, "simple", "", ""),
       S(271, {"map_threshold", "z_map", "brain_mask"}, <<"thresh_img", "thresh">>, TRUE, "simple", "", ""),
       S(273, {"view_img", "thresh_img"}, <<>>, TRUE, "simple", "", "") >>,
    <<
       S(295, {"map_threshold", "z_map", "brain_mask"}, <<"thresh_img", "thresh">>, TRUE, "simple", "", ""),
       S(296, {"view_img", "thresh_img"}, <<>>, TRUE, "simple", "", "") >> >>

\* src/7_ROI_Analysis.ipynb, its code cells in order
Nb_7_ROI_Analysis == <<
    <<
       S(20, {}, <<"pickle">>, FALSE, "simple", "", ""),
       S(21, {}, <<"np">>, FALSE, "simple", "", ""),
       S(22, {}, <<"pd">>, FALSE, "simple", "", ""),
       S(23, {}, <<"plt">>, FALSE, "simple", "", ""),
       S(24, {}, <<"sns">>, FALSE, "simple", "", ""),
       S(25, {}, <<"nib">>, FALSE, "simple", "", ""),
       S(26, {}, <<"NiftiMasker">>, FALSE, "simple", "", ""),
       S(27, {}, <<"plot_stat_map", "plot_roi">>, FALSE, "simple", "", ""),
       S(29, {}, <<"warnings">>, FALSE, "simple", "", ""),
       S(30, {"warnings"}, <<>>, TRUE, "simple", "", "") >>,
    <<
       S(39, {"pickle"}, <<"f", "glms">>, TRUE, "with", "first_level_models.p", "") >>,
    <<
       S(60, {}, <<"cond">>, FALSE, "simple", "", ""),
       S(62, {}, <<"param_maps">>, FALSE, "simple", "", ""),
       S(63, {"glms", "cond", "param_maps"}, <<"model", "parameter_map">>, TRUE, "for", "", "") >>,
    <<
       S(74, {"param_maps"}, <<>>, FALSE, "simple", "", "") >>,
    <<
       S(92, {"plot_roi"}, <<>>, TRUE, "simple", "", "") >>,
    <<
       S(101, {"plot_roi"}, <<>>, TRUE, "simple", "", "") >>,
    <<
       S(110, {"plot_roi"}, <<>>, TRUE, "simple", "", "") >>,
    <<
       S(133, {"NiftiMasker"}, <<"masker">>, TRUE, "simple", "", ""),
       S(135, {"masker", "param_maps"}, <<"roi_data">>, TRUE, "simple", "", ""),
       S(137, {"roi_data"}, <<>>, FALSE, "simple", "", "") >>,
    <<
       S(146, {"roi_data"}, <<>>, FALSE, "simple", "", "") >>,
    <<
       S(162, {"np", "roi_data"}, <<"roi_means">>, TRUE, "simple", "", ""),
       S(163, {"roi_means"}, <<>>, FALSE, "simple", "", "") >>,
    <<
       S(181, {}, <<"conditions">>, FALSE, "simple", "", ""),
       S(183, {}, <<"condition_means">>, FALSE, "simple", "", ""),
       S(184, {"conditions", "glms", "NiftiMasker", "np", "condition_means"}, <<"cond", "param_maps", "model", "parameter_map", "masker", "roi_data", "roi_means">>, TRUE, "for", "", "") >>,
    <<
       S(215, {"condition_means"}, <<>>, FALSE, "simple", "", "") >>,
    <<
       S(235, {"pd", "condition_means"}, <<"results">>, TRUE, "simple", "", ""),
       S(236, {"results"}, <<>>, FALSE, "simple", "", "") >>,
    <<
       S(245, {"results"}, <<>>, TRUE, "simple", "", "") >>,
    <<
       S(261, {"results"}, <<"results">>, TRUE, "simple", "", ""),
       S(262, {"results"}, <<>>, FALSE, "simple", "", "") >>,
    <<
       S(278, {"sns", "results"}, <<>>, TRUE, "simple", "", "") >>,
    <<
       S(294, {"plt"}, <<"fig", "ax">>, TRUE, "simple", "", ""),
       S(296, {"sns", "results", "ax"}, <<>>, TRUE, "simple", "", ""),
       S(299, {"sns", "results", "ax"}, <<>>, TRUE, "simple", "", ""),
       S(302, {"ax"}, <<>>, TRUE, "simple", "", ""),
       S(304, {"ax"}, <<>>, TRUE, "simple", "", ""),
       S(305, {"ax"}, <<>>, TRUE, "simple", "", ""),
       S(306, {"sns"}, <<>>, TRUE, "simple", "", "") >> >>

\* src/unnamed/part_006, its code cells in order
Nb_RSA == <<
    <<
       S(22, {}, <<"pickle">>, FALSE, "simple", "", ""),
       S(23, {}, <<"np">>, FALSE, "simple", "", ""),
       S(24, {}, <<"pd">>, FALSE, "simple", "", ""),
       S(25, {}, <<"plt">>, FALSE, "simple", "", ""),
       S(26, {}, <<"sns">>, FALSE, "simple", "", ""),
       S(27, {}, <<"nib">>, FALSE, "simple", "", ""),
       S(30, {}, <<"spatial", "stats", "cluster">>, FALSE, "simple", "", ""),
       S(32, {}, <<"NiftiMasker">>, FALSE, "simple", "", ""),
       S(33, {}, <<"image">>, FALSE, "simple", "", ""),
       S(34, {}, <<"plot_roi">>, FALSE, "simple", "", ""),
       S(36, {}, <<"warnings">>, FALSE, "simple", "", ""),
       S(37, {"warnings"}, <<>>, TRUE, "simple", "", "") >>,
    <<
       S(53, {"pickle"}, <<"f", "glms">>, TRUE, "with", "first_level_models.p", "") >>,
    <<
       S(72, {}, <<"roi_img">>, FALSE, "simple", "", ""),
       S(73, {}, <<"conditions">>, FALSE, "simple", "", ""),
       S(75, {}, <<"pattern_list">>, FALSE, "simple", "", ""),
       S(76, {"conditions", "glms", "image", "roi_img", "NiftiMasker", "pattern_list"}, <<"cond", "param_maps", "model", "parameter_map", "roi", "masker", "roi_data">>, TRUE, "for", "", ""),
       S(97, {"np", "pattern_list"}, <<"pattern_array">>, TRUE, "simple", "", "") >>,
    <<
       S(107, {"pattern_array"}, <<>>, FALSE, "simple", "", "") >>,
    <<
       S(125, {"pattern_array"}, <<"arm">>, TRUE, "simple", "", ""),
       S(126, {"pattern_array"}, <<"grasp">>, TRUE, "simple", "", "") >>,
    <<
       S(135, {"stats", "arm", "grasp"}, <<"r", "p">>, TRUE, "simple", "", ""),
       S(136, {"r"}, <<>>, FALSE, "simple", "", "") >>,
    <<
       S(145, {"plt"}, <<"fig", "ax">>, TRUE, "simple", "", ""),
       S(146, {"ax", "arm", "grasp"}, <<>>, TRUE, "simple", "", ""),
       S(147, {"ax", "r"}, <<>>, TRUE, "simple", "", "") >>,
    <<
       S(163, {"pattern_array"}, <<"eye">>, TRUE, "simple", "", ""),
       S(165, {"stats", "arm", "eye"}, <<"r", "p">>, TRUE, "simple", "", ""),
       S(166, {"r"}, <<>>, FALSE, "simple", "", "") >>,
    <<
       S(175, {"plt"}, <<"fig", "ax">>, TRUE, "simple", "", ""),
       S(176, {"ax", "arm", "eye"}, <<>>, TRUE, "simple", "", ""),
       S(177, {"ax", "r"}, <<>>, TRUE, "simple", "", "") >>,
    <<
       S(198, {"np", "pattern_array"}, <<"corr_matrix">>, TRUE, "simple", "", ""),
       S(199, {"pd", "corr_matrix", "conditions"}, <<"corr_matrix">>, TRUE, "simple", "", ""),
       S(200, {"corr_matrix"}, <<>>, FALSE, "simple", "", "") >>,
    <<
       S(216, {"sns", "corr_matrix"}, <<>>, TRUE, "simple", "", ""),
       S(217, {"plt"}, <<>>, TRUE, "simple", "", ""),
       S(218, {"plt"}, <<>>, TRUE, "simple", "", "") >>,
    <<
       S(245, {"corr_matrix"}, <<"dissim_matrix">>, TRUE, "simple", "", ""),
       S(247, {"sns", "dissim_matrix"}, <<>>, TRUE, "simple", "", ""),
       S(248, {"plt"}, <<>>, TRUE, "simple", "", ""),
       S(249, {"plt"}, <<>>, TRUE, "simple", "", "") >>,
    <<
       S(266, {"spatial", "dissim_matrix"}, <<"distances">>, TRUE, "simple", "", ""),
       S(269, {"cluster", "distances"}, <<"linkages">>, TRUE, "simple", "", ""),
       S(272, {"cluster", "linkages", "conditions"}, <<"dendo">>, TRUE, "simple", "", "") >>,
    <<
       S(288, {"sns", "dissim_matrix", "linkages"}, <<>>, TRUE, "simple", "", "") >>,
    <<
       S(307, {}, <<"matrices">>, FALSE, "simple", "", ""),
       S(308, {"np", "pattern_array", "matrices"}, <<"i", "corr_mat">>, TRUE, "for", "", ""),
       S(311, {"np", "matrices"}, <<"matrices">>, TRUE, "simple", "", "") >>,
    <<
       S(321, {"np", "matrices"}, <<"mean_corr_matrix">>, TRUE, "simple", "", ""),
       S(323, {"pd", "mean_corr_matrix", "conditions"}, <<"mean_corr_matrix">>, TRUE, "simple", "", ""),
       S(326, {"sns", "mean_corr_matrix"}, <<>>, TRUE, "simple", "", ""),
       S(327, {"plt"}, <<>>, TRUE, "simple", "", "") >>,
    <<
       S(343, {"mean_corr_matrix"}, <<"mean_dissim_matrix">>, TRUE, "simple", "", ""),
       S(344, {"sns", "mean_dissim_matrix"}, <<>>, TRUE, "simple", "", ""),
       S(345, {"plt"}, <<>>, TRUE, "simple", "", "") >>,
    <<
       S(362, {"spatial", "mean_dissim_matrix"}, <<"distances">>, TRUE, "simple", "", ""),
       S(365, {"cluster", "distances"}, <<"linkages">>, TRUE, "simple", "", ""),
       S(368, {"cluster", "linkages", "conditions"}, <<"dendo">>, TRUE, "simple", "", "") >>,
    <<
       S(377, {"sns", "mean_dissim_matrix", "linkages"}, <<>>, TRUE, "simple", "", "") >>,
    <<
       S(404, {"np"}, <<"rdm_1">>, TRUE, "simple", "", ""),
       S(405, {"np", "rdm_1"}, <<>>, TRUE, "simple", "", ""),
       S(406, {"pd", "rdm_1", "conditions"}, <<"rdm_1">>, TRUE, "simple", "", ""),
       S(407, {"rdm_1"}, <<>>, FALSE, "simple", "", "") >>,
    <<
       S(416, {"sns", "rdm_1"}, <<>>, TRUE, "simple", "", ""),
       S(417, {"plt"}, <<>>, TRUE, "simple", "", "") >>,
    <<
       S(434, {"np"}, <<"rdm_2">>, TRUE, "simple", "", ""),
       S(435, {"np", "rdm_2"}, <<>>, TRUE, "simple", "", ""),
       S(436, {"rdm_2"}, <<>>, TRUE, "simple", "", ""),
       S(437, {"rdm_2"}, <<>>, TRUE, "simple", "", ""),
       S(438, {"rdm_2"}, <<>>, TRUE, "simple", "", ""),
       S(439, {"rdm_2"}, <<>>, TRUE, "simple", "", ""),
       S(441, {"pd", "rdm_2", "conditions"}, <<"rdm_2">>, TRUE, "simple", "", ""),
       S(442, {"rdm_2"}, <<>>, FALSE, "simple", "", "") >>,
    <<
       S(451, {"sns", "rdm_2"}, <<>>, TRUE, "simple", "", ""),
       S(452, {"plt"}, <<>>, TRUE, "simple", "", "") >>,
    <<
       S(469, {"np"}, <<"rdm_3">>, TRUE, "simple", "", ""),
       S(470, {"np", "rdm_3"}, <<>>, TRUE, "simple", "", ""),
       S(471, {"rdm_3"}, <<>>, TRUE, "simple", "", ""),
       S(472, {"rdm_3"}, <<>>, TRUE, "simple", "", ""),
       S(473, {"rdm_3"}, <<>>, TRUE, "simple", "", ""),
       S(474, {"rdm_3"}, <<>>, TRUE, "simple", "", ""),
       S(475, {"rdm_3"}, <<>>, TRUE, "simple", "", ""),
       S(476, {"rdm_3"}, <<>>, TRUE, "simple", "", ""),
       S(477, {"rdm_3"}, <<>>, TRUE, "simple", "", ""),
       S(479, {"pd", "rdm_3", "conditions"}, <<"rdm_3">>, TRUE, "simple", "", ""),
       S(480, {"rdm_3"}, <<>>, FALSE, "simple", "", "") >>,
    <<
       S(489, {"sns", "rdm_3"}, <<>>, TRUE, "simple", "", ""),
       S(490, {"plt"}, <<>>, TRUE, "simple", "", "") >>,
    <<
       S(507, {}, <<"test_model">>, FALSE, "simple", "", "") >>,
    <<
       S(525, {"test_model", "stats", "rdm_3", "matrices"}, <<>>, TRUE, "simple", "", "") >>,
    <<
       S(542, {"pd", "test_model", "stats", "rdm_1", "matrices", "rdm_2", "rdm_3"}, <<"df">>, TRUE, "simple", "", ""),
       S(546, {"df"}, <<"df">>, TRUE, "simple", "", "") >>,
    <<
       S(556, {"plt"}, <<"fig", "ax">>, TRUE, "simple", "", ""),
       S(557, {"sns", "df", "ax"}, <<>>, TRUE, "simple", "", ""),
       S(559, {"sns", "df", "ax"}, <<>>, TRUE, "simple", "", ""),
       S(560, {"ax"}, <<>>, TRUE, "simple", "", ""),
       S(562, {"ax"}, <<>>, TRUE, "simple", "", ""),
       S(563, {"ax"}, <<>>, TRUE, "simple", "", ""),
       S(564, {"sns"}, <<>>, TRUE, "simple", "", "") >> >>

\* src/unnamed/part_005, its code cells in order
Nb_FunctionalConnectivity == <<
    <<
       S(44, {}, <<"np">>, FALSE, "simple", "", ""),
       S(45, {}, <<"pd">>, FALSE, "simple", "", ""),
       S(46, {}, <<"stats", "special">>, FALSE, "simple", "", ""),
       S(47, {}, <<"plt">>, FALSE, "simple", "", ""),
       S(48, {}, <<"sns">>, FALSE, "simple", "", ""),
       S(49, {}, <<"nib">>, FALSE, "simple", "", ""),
       S(51, {}, <<"fetch_atlas_schaefer_2018">>, FALSE, "simple", "", ""),
       S(52, {}, <<"NiftiLabelsMasker">>, FALSE, "simple", "", ""),
       S(53, {}, <<"ConnectivityMeasure">>, FALSE, "simple", "", ""),
       S(54, {}, <<"plotting", "image">>, FALSE, "simple", "", ""),
       S(55, {}, <<"bct">>, FALSE, "simple", "", "") >>,
    <<
       S(77, {"fetch_atlas_schaefer_2018"}, <<"atlas">>, TRUE, "simple", "", ""),
       S(80, {"nib", "atlas"}, <<"atlas_img">>, TRUE, "simple", "", "") >>,
    <<
       S(96, {"plotting", "atlas_img"}, <<>>, TRUE, "simple", "", "") >>,
    <<
       S(112, {"plotting", "atlas_img"}, <<>>, TRUE, "simple", "", "") >>,
    <<
       S(129, {"atlas"}, <<"labels">>, TRUE, "simple", "", ""),
       S(130, {"labels"}, <<>>, FALSE, "simple", "", "") >>,
    <<
       S(159, {}, <<"confound_names">>, FALSE, "simple", "", "") >>,
    <<
       S(178, {"pd", "confound_names"}, <<"confounds">>, TRUE, "simple", "", ""),
       S(179, {"confounds"}, <<>>, TRUE, "simple", "", "") >>,
    <<
       S(197, {"nib"}, <<"func_img">>, TRUE, "simple", "", ""),
       S(198, {"func_img"}, <<>>, FALSE, "simple", "", "") >>,
    <<
       S(208, {"image", "func_img"}, <<"func_img">>, TRUE, "simple", "", ""),
       S(210, {"func_img"}, <<>>, FALSE, "simple", "", "") >>,
    <<
       S(227, {"confounds"}, <<"confounds">>, TRUE, "simple", "", "") >>,
    <<
       S(244, {"NiftiLabelsMasker", "atlas_img"}, <<"masker">>, TRUE, "simple", "", ""),
       S(247, {"masker", "func_img", "confounds"}, <<"data">>, TRUE, "simple", "", "") >>,
    <<
       S(263, {"data"}, <<>>, FALSE, "simple", "", "") >>,
    <<
       S(272, {"plt"}, <<>>, TRUE, "simple", "", ""),
       S(273, {"plt", "data"}, <<>>, TRUE, "simple", "", "") >>,
    <<
       S(301, {"data"}, <<"region1">>, TRUE, "simple", "", ""),
       S(302, {"data"}, <<"region2">>, TRUE, "simple", "", ""),
       S(303, {"stats", "region1", "region2"}, <<"r", "p">>, TRUE, "simple", "", ""),
       S(306, {"plt"}, <<"fig", "axes">>, TRUE, "simple", "", ""),
       S(308, {"axes"}, <<"ax1", "ax2">>, FALSE, "simple", "", ""),
       S(310, {"ax1", "data", "region1"}, <<>>, TRUE, "simple", "", ""),
       S(311, {"ax1", "data", "region2"}, <<>>, TRUE, "simple", "", ""),
       S(312, {"ax1"}, <<>>, TRUE, "simple", "", ""),
       S(314, {"ax2", "region1", "region2"}, <<>>, TRUE, "simple", "", ""),
       S(315, {"ax2", "r"}, <<>>, TRUE, "simple", "", "") >>,
    <<
       S(335, {"ConnectivityMeasure"}, <<"connect">>, TRUE, "simple", "", ""),
       S(338, {"connect", "data"}, <<"cmat">>, TRUE, "simple", "", ""),
       S(340, {"cmat"}, <<"cmat">>, TRUE, "simple", "", ""),
       S(343, {"cmat"}, <<>>, FALSE, "simple", "", "") >>,
    <<
       S(359, {"plt"}, <<"fig", "ax">>, TRUE, "simple", "", ""),
       S(360, {"plotting", "cmat", "labels", "fig"}, <<>>, TRUE, "simple", "", "") >>,
    <<
       S(376, {"cmat"}, <<"left_vis">>, TRUE, "simple", "", ""),
       S(378, {"plt"}, <<"fig", "ax">>, TRUE, "simple", "", ""),
       S(379, {"plotting", "left_vis", "labels", "fig"}, <<>>, TRUE, "simple", "", "") >>,
    <<
       S(388, {"image", "atlas_img"}, <<"vis_img">>, TRUE, "simple", "", ""),
       S(389, {"plotting", "vis_img"}, <<>>, TRUE, "simple", "", "") >>,
    <<
       S(410, {"plt"}, <<"fig", "ax">>, TRUE, "simple", "", ""),
       S(411, {"plotting", "cmat", "labels", "fig"}, <<>>, TRUE, "simple", "", "") >>,
    <<
       S(433, {}, <<"threshold">>, FALSE, "simple", "", ""),
       S(434, {"bct", "cmat", "threshold"}, <<"thresh_mat">>, TRUE, "simple", "", ""),
       S(436, {"plt"}, <<"fig", "ax">>, TRUE, "simple", "", ""),
       S(437, {"plotting", "thresh_mat", "atlas", "fig"}, <<>>, TRUE, "simple", "", "") >>,
    <<
       S(455, {}, <<"threshold">>, FALSE, "simple", "", ""),
       S(456, {"bct", "cmat", "threshold"}, <<"thresh_mat">>, TRUE, "simple", "", ""),
       S(458, {"plt"}, <<"fig", "ax">>, TRUE, "simple", "", ""),
       S(459, {"plotting", "thresh_mat", "atlas", "fig"}, <<>>, TRUE, "simple", "", "") >>,
    <<
       S(479, {"bct", "thresh_mat"}, <<"binary_mat">>, TRUE, "simple", "", ""),
       S(481, {"plt"}, <<"fig", "ax">>, TRUE, "simple", "", ""),
       S(482, {"plotting", "binary_mat", "atlas", "fig"}, <<>>, TRUE, "simple", "", "") >> >>

\* src/unnamed/part_002, its code cells in order
Nb_NetworkAnalysis_draft == <<
    <<
       S(32, {}, <<"np">>, FALSE, "simple", "", ""),
       S(33, {}, <<"pd">>, FALSE, "simple", "", ""),
       S(34, {}, <<"spatial", "stats", "cluster">>, FALSE, "simple", "", ""),
       S(35, {}, <<"plt">>, FALSE, "simple", "", ""),
       S(36, {}, <<"sns">>, FALSE, "simple", "", ""),
       S(37, {}, <<"plotting">>, FALSE, "simple", "", ""),
       S(38, {}, <<"fetch_atlas_schaefer_2018">>, FALSE, "simple", "", ""),
       S(39, {}, <<"nx">>, FALSE, "simple", "", ""),
       S(40, {}, <<"bct">>, FALSE, "simple", "", "") >>,
    <<
       S(49, {"fetch_atlas_schaefer_2018"}, <<"atlas">>, TRUE, "simple", "", ""),
       S(50, {"atlas"}, <<"labels">>, TRUE, "simple", "", "") >>,
    <<
       S(66, {"np"}, <<"cmat">>, TRUE, "simple", "connectivity.csv", ""),
       S(68, {"plt"}, <<"fig", "ax">>, TRUE, "simple", "", ""),
       S(69, {"plotting", "cmat", "fig"}, <<>>, TRUE, "simple", "", "") >>,
    <<
       S(78, {"bct", "cmat"}, <<"thresh_cmat">>, TRUE, "simple", "", ""),
       S(80, {"plt"}, <<"fig", "ax">>, TRUE, "simple", "", ""),
       S(81, {"plotting", "thresh_cmat", "fig"}, <<>>, TRUE, "simple", "", "") >>,
    <<
       S(90, {"bct", "thresh_cmat"}, <<"bin_cmat">>, TRUE, "simple", "", ""),
       S(91, {"plt"}, <<"fig", "ax">>, TRUE, "simple", "", ""),
       S(92, {"plotting", "bin_cmat", "fig"}, <<>>, TRUE, "simple", "", "") >>,
    <<
       S(110, {"thresh_cmat"}, <<"A">>, TRUE, "simple", "", ""),
       S(111, {"labels"}, <<"region_labels">>, TRUE, "simple", "", ""),
       S(113, {"plt"}, <<"fig", "ax">>, TRUE, "simple", "", ""),
       S(114, {"plotting", "A", "region_labels", "fig"}, <<>>, TRUE, "simple", "", "") >>,
    <<
       S(130, {"nx", "A"}, <<"G">>, TRUE, "simple", "", ""),
       S(131, {"nx", "G", "region_labels"}, <<"G">>, TRUE, "simple", "", "") >>,
    <<
       S(149, {}, <<"region_colors">>, TRUE, "simple", "", ""),
       S(151, {"nx", "G", "region_colors"}, <<>>, TRUE, "simple", "", "") >>,
    <<
       S(172, {"nx", "G"}, <<"edges", "weights">>, TRUE, "simple", "", ""),
       S(173, {"edges"}, <<>>, FALSE, "simple", "", "") >>,
    <<
       S(182, {"weights"}, <<>>, FALSE, "simple", "", "") >>,
    <<
       S(191, {"weights"}, <<"weight_widths">>, TRUE, "simple", "", ""),
       S(194, {"nx", "G"}, <<"layout">>, TRUE, "simple", "", ""),
       S(195, {"nx", "G", "layout", "region_colors"}, <<>>, TRUE, "simple", "", ""),
       S(197, {"nx", "G", "layout"}, <<>>, TRUE, "simple", "", ""),
       S(198, {"nx", "G", "layout", "edges", "weight_widths"}, <<>>, TRUE, "simple", "", ""),
       S(199, {"plt"}, <<>>, TRUE, "simple", "", "") >>,
    <<
       S(217, {"bct", "A"}, <<"vis_density", "n", "k">>, TRUE, "simple", "", ""),
       S(218, {"bct", "A"}, <<"mot_density", "n", "k">>, TRUE, "simple", "", ""),
       S(220, {"plt"}, <<"fig", "ax">>, TRUE, "simple", "", ""),
       S(221, {"ax", "vis_density", "mot_density"}, <<>>, TRUE, "simple", "", ""),
       S(223, {"sns"}, <<>>, TRUE, "simple", "", "") >>,
    <<
       S(248, {"bct", "A"}, <<"degrees">>, TRUE, "simple", "", ""),
       S(250, {"plt"}, <<"fig", "ax">>, TRUE, "simple", "", ""),
       S(251, {"ax", "region_labels", "degrees", "region_colors"}, <<>>, TRUE, "simple", "", ""),
       S(252, {"sns"}, <<>>, TRUE, "simple", "", "") >>,
    <<
       S(268, {"bct", "A"}, <<"strengths">>, TRUE, "simple", "", ""),
       S(270, {"plt"}, <<"fig", "ax">>, TRUE, "simple", "", ""),
       S(271, {"ax", "region_labels", "strengths", "region_colors"}, <<>>, TRUE, "simple", "", ""),
       S(272, {"sns"}, <<>>, TRUE, "simple", "", "") >>,
    <<
       S(289, {"bct", "A"}, <<"eigin_cent">>, TRUE, "simple", "", ""),
       S(291, {"plt"}, <<"fig", "ax">>, TRUE, "simple", "", ""),
       S(292, {"ax", "region_labels", "eigin_cent", "region_colors"}, <<>>, TRUE, "simple", "", ""),
       S(293, {"sns"}, <<>>, TRUE, "simple", "", "") >>,
    <<
       S(302, {"bct", "A"}, <<"between_cent">>, TRUE, "simple", "", ""),
       S(304, {"plt"}, <<"fig", "ax">>, TRUE, "simple", "", ""),
       S(305, {"ax", "region_labels", "between_cent", "region_colors"}, <<>>, TRUE, "simple", "", ""),
       S(306, {"sns"}, <<>>, TRUE, "simple", "", "") >>,
    <<
       S(323, {"spatial", "A"}, <<"distances">>, TRUE, "simple", "", ""),
       S(326, {"cluster", "distances"}, <<"linkages">>, TRUE, "simple", "", ""),
       S(329, {"cluster", "linkages", "region_labels"}, <<"dendo">>, TRUE, "simple", "", ""),
       S(330, {"plt"}, <<>>, TRUE, "simple", "", "") >>,
    <<
       S(339, {"bct", "A"}, <<"modulatiry">>, TRUE, "simple", "", "") >>,
    <<
       S(348, {"bct", "A"}, <<>>, TRUE, "simple", "", "") >>,
    <<
       S(364, {"pd", "np", "labels"}, <<"label_data">>, TRUE, "simple", "", ""),
       S(365, {"label_data"}, <<>>, FALSE, "simple", "", "") >>,
    <<
       S(374, {}, <<"set_color">>, FALSE, "simple", "", ""),
       S(385, {"labels", "set_color"}, <<"node_colors">>, TRUE, "simple", "", "") >>,
    <<
       S(394, {"nx", "thresh_cmat"}, <<"G">>, TRUE, "simple", "", ""),
       S(395, {"nx", "G", "label_data"}, <<"G">>, TRUE, "simple", "", "") >>,
    <<
       S(405, {"nx", "G", "node_colors"}, <<>>, TRUE, "simple", "", "") >>,
    <<
       S(414, {"nx", "G", "node_colors"}, <<>>, TRUE, "simple", "", "") >> >>

\* src/unnamed/part_001, its code cells in order
Nb_NetworkAnalysis == <<
    <<
       S(38, {}, <<"np">>, FALSE, "simple", "", ""),
       S(39, {}, <<"pd">>, FALSE, "simple", "", ""),
       S(40, {}, <<"spatial", "stats", "cluster">>, FALSE, "simple", "", ""),
       S(41, {}, <<"plt">>, FALSE, "simple", "", ""),
       S(42, {}, <<"sns">>, FALSE, "simple", "", ""),
       S(43, {}, <<"nib">>, FALSE, "simple", "", ""),
       S(44, {}, <<"plotting", "input_data">>, FALSE, "simple", "", ""),
       S(45, {}, <<"fetch_atlas_schaefer_2018">>, FALSE, "simple", "", ""),
       S(46, {}, <<"nx">>, FALSE, "simple", "", ""),
       S(47, {}, <<"bct">>, FALSE, "simple", "", "") >>,
    <<
       S(65, {"fetch_atlas_schaefer_2018"}, <<"atlas">>, TRUE, "simple", "", ""),
       S(66, {"atlas"}, <<"labels">>, TRUE, "simple", "", "") >>,
    <<
       S(84, {"np"}, <<"cmat">>, TRUE, "simple", "connectivity.csv", ""),
       S(86, {"plt"}, <<"fig", "ax">>, TRUE, "simple", "", ""),
       S(87, {"plotting", "cmat", "fig"}, <<>>, TRUE, "simple", "", "") >>,
    <<
       S(96, {"bct", "cmat"}, <<"thresh_cmat">>, TRUE, "simple", "", ""),
       S(98, {"plt"}, <<"fig", "ax">>, TRUE, "simple", "", ""),
       S(99, {"plotting", "thresh_cmat", "fig"}, <<>>, TRUE, "simple", "", "") >>,
    <<
       S(117, {"thresh_cmat"}, <<"A">>, TRUE, "simple", "", ""),
       S(118, {"labels"}, <<"region_labels">>, TRUE, "simple", "", ""),
       S(120, {"plt"}, <<"fig", "ax">>, TRUE, "simple", "", ""),
       S(121, {"plotting", "A", "region_labels", "fig"}, <<>>, TRUE, "simple", "", "") >>,
    <<
       S(139, {"nx", "A"}, <<"G">>, TRUE, "simple", "", ""),
       S(140, {"nx", "G", "region_labels"}, <<"G">>, TRUE, "simple", "", "") >>,
    <<
       S(158, {}, <<"region_colors">>, TRUE, "simple", "", ""),
       S(160, {"nx", "G", "region_colors"}, <<>>, TRUE, "simple", "", "") >>,
    <<
       S(181, {"nx", "G"}, <<"edges", "weights">>, TRUE, "simple", "", ""),
       S(182, {"edges"}, <<>>, FALSE, "simple", "", "") >>,
    <<
       S(191, {"weights"}, <<>>, FALSE, "simple", "", "") >>,
    <<
       S(200, {"weights"}, <<"weight_widths">>, TRUE, "simple", "", ""),
       S(202, {"nx", "G"}, <<"layout">>, TRUE, "simple", "", ""),
       S(203, {"nx", "G", "layout", "region_colors"}, <<>>, TRUE, "simple", "", ""),
       S(205, {"nx", "G", "layout"}, <<>>, TRUE, "simple", "", ""),
       S(206, {"nx", "G", "layout", "edges", "weight_widths"}, <<>>, TRUE, "simple", "", ""),
       S(207, {"plt"}, <<>>, TRUE, "simple", "", "") >>,
    <<
       S(227, {"bct", "A"}, <<"vis_density", "n", "k">>, TRUE, "simple", "", ""),
       S(228, {"bct", "A"}, <<"mot_density", "n", "k">>, TRUE, "simple", "", ""),
       S(230, {"plt"}, <<"fig", "ax">>, TRUE, "simple", "", ""),
       S(231, {"ax", "vis_density", "mot_density"}, <<>>, TRUE, "simple", "", ""),
       S(233, {"sns"}, <<>>, TRUE, "simple", "", "") >>,
    <<
       S(258, {"bct", "A"}, <<"degrees">>, TRUE, "simple", "", ""),
       S(260, {"plt"}, <<"fig", "ax">>, TRUE, "simple", "", ""),
       S(261, {"ax", "region_labels", "degrees", "region_colors"}, <<>>, TRUE, "simple", "", ""),
       S(262, {"plt"}, <<>>, TRUE, "simple", "", ""),
       S(263, {"sns"}, <<>>, TRUE, "simple", "", "") >>,
    <<
       S(279, {"bct", "A"}, <<"strengths">>, TRUE, "simple", "", ""),
       S(281, {"plt"}, <<"fig", "ax">>, TRUE, "simple", "", ""),
       S(282, {"ax", "region_labels", "strengths", "region_colors"}, <<>>, TRUE, "simple", "", ""),
       S(283, {"plt"}, <<>>, TRUE, "simple", "", ""),
       S(284, {"sns"}, <<>>, TRUE, "simple", "", "") >>,
    <<
       S(305, {"bct", "A"}, <<"A_inv">>, TRUE, "simple", "", ""),
       S(307, {"bct", "A_inv"}, <<"dist", "num">>, TRUE, "simple", "", ""),
       S(309, {"plt"}, <<"fig", "ax">>, TRUE, "simple", "", ""),
       S(310, {"plotting", "num", "region_labels", "fig"}, <<>>, TRUE, "simple", "", ""),
       S(312, {"ax"}, <<>>, TRUE, "simple", "", "") >>,
    <<
       S(328, {"plt"}, <<"fig", "ax">>, TRUE, "simple", "", ""),
       S(329, {"plotting", "dist", "region_labels", "fig"}, <<>>, TRUE, "simple", "", ""),
       S(331, {"ax"}, <<>>, TRUE, "simple", "", "") >>,
    <<
       S(348, {"np", "dist"}, <<"characteristic_path">>, TRUE, "simple", "", ""),
       S(349, {"characteristic_path"}, <<>>, FALSE, "simple", "", "") >>,
    <<
       S(368, {"bct", "A_inv"}, <<"between_cent">>, TRUE, "simple", "", ""),
       S(370, {"plt"}, <<"fig", "ax">>, TRUE, "simple", "", ""),
       S(371, {"ax", "region_labels", "between_cent", "region_colors"}, <<>>, TRUE, "simple", "", ""),
       S(372, {"plt"}, <<>>, TRUE, "simple", "", ""),
       S(373, {"sns"}, <<>>, TRUE, "simple", "", "") >>,
    <<
       S(389, {"bct", "A"}, <<"eigin_cent">>, TRUE, "simple", "", ""),
       S(391, {"plt"}, <<"fig", "ax">>, TRUE, "simple", "", ""),
       S(392, {"ax", "region_labels", "eigin_cent", "region_colors"}, <<>>, TRUE, "simple", "", ""),
       S(393, {"plt"}, <<>>, TRUE, "simple", "", ""),
       S(394, {"sns"}, <<>>, TRUE, "simple", "", "") >>,
    <<
       S(413, {}, <<"network_index">>, FALSE, "simple", "", ""),
       S(414, {"bct", "A", "network_index"}, <<"participation">>, TRUE, "simple", "", ""),
       S(416, {"plt"}, <<"fig", "ax">>, TRUE, "simple", "", ""),
       S(417, {"ax", "region_labels", "participation", "region_colors"}, <<>>, TRUE, "simple", "", ""),
       S(418, {"plt"}, <<>>, TRUE, "simple", "", ""),
       S(419, {"sns"}, <<>>, TRUE, "simple", "", "") >>,
    <<
       S(440, {"spatial", "A"}, <<"distances">>, TRUE, "simple", "", ""),
       S(443, {"cluster", "distances"}, <<"linkages">>, TRUE, "simple", "", ""),
       S(446, {"cluster", "linkages", "region_labels"}, <<"dendo">>, TRUE, "simple", "", ""),
       S(447, {"plt"}, <<>>, TRUE, "simple", "", "") >>,
    <<
       S(465, {"bct", "A"}, <<"modul", "q">>, TRUE, "simple", "", ""),
       S(466, {"q"}, <<>>, FALSE, "simple", "", "") >>,
    <<
       S(482, {"bct", "A"}, <<"modul_louvain", "q">>, TRUE, "simple", "", ""),
       S(483, {"q"}, <<>>, FALSE, "simple", "", "") >>,
    <<
       S(499, {"plt"}, <<"fig", "ax">>, TRUE, "simple", "", ""),
       S(500, {"ax", "np", "modul", "modul_louvain"}, <<>>, TRUE, "simple", "", ""),
       S(501, {"ax", "region_labels"}, <<>>, TRUE, "simple", "", ""),
       S(503, {"plt"}, <<>>, TRUE, "simple", "", "") >>,
    <<
       S(521, {"pd", "np", "labels"}, <<"label_data">>, TRUE, "simple", "", ""),
       S(522, {"label_data"}, <<>>, FALSE, "simple", "", "") >>,
    <<
       S(531, {"label_data"}, <<>>, TRUE, "simple", "", "") >>,
    <<
       S(549, {}, <<"set_color">>, FALSE, "simple", "", ""),
       S(560, {}, <<"set_network">>, FALSE, "simple", "", ""),
       S(570, {"labels", "set_color"}, <<"node_colors">>, TRUE, "simple", "", ""),
       S(571, {"labels", "set_network"}, <<"node_network">>, TRUE, "simple", "", "") >>,
    <<
       S(580, {"nx", "thresh_cmat"}, <<"G">>, TRUE, "simple", "", ""),
       S(581, {"nx", "G", "label_data"}, <<"G">>, TRUE, "simple", "", "") >>,
    <<
       S(590, {"nx", "G", "node_colors"}, <<>>, TRUE, "simple", "", "") >>,
    <<
       S(599, {"nx", "G", "node_colors"}, <<>>, TRUE, "simple", "", "") >>,
    <<
       S(625, {"thresh_cmat"}, <<"A">>, FALSE, "simple", "", "") >>,
    <<
       S(634, {"bct", "A"}, <<"A_inv">>, TRUE, "simple", "", ""),
       S(636, {"bct", "A_inv"}, <<"dist", "num">>, TRUE, "simple", "", ""),
       S(638, {"plt"}, <<"fig", "ax">>, TRUE, "simple", "", ""),
       S(639, {"plotting", "dist", "fig"}, <<>>, TRUE, "simple", "", ""),
       S(641, {"ax"}, <<>>, TRUE, "simple", "", "") >>,
    <<
       S(650, {}, <<"stat_map">>, FALSE, "simple", "", "") >>,
    <<
       S(668, {"bct", "A"}, <<"degrees">>, TRUE, "simple", "", ""),
       S(669, {"bct", "A"}, <<"strengths">>, TRUE, "simple", "", ""),
       S(670, {"bct", "A"}, <<"eigin_cent">>, TRUE, "simple", "", ""),
       S(671, {"bct", "A_inv"}, <<"between_cent">>, TRUE, "simple", "", ""),
       S(673, {"bct", "A", "node_network"}, <<"participation">>, TRUE, "simple", "", "") >>,
    <<
       S(682, {"nib", "atlas"}, <<"atlas_img">>, TRUE, "simple", "", ""),
       S(684, {"stat_map", "np", "nib", "between_cent", "atlas_img"}, <<"res">>, TRUE, "simple", "", ""),
       S(685, {"plotting", "res"}, <<>>, TRUE, "simple", "", "") >> >>

\* the notebooks in lesson order (README), the two versions of a lesson's
\* notebook one after the other
Notebooks ==
    <<Nb_NiftiFiles, Nb_3_Temporal_Filtering, Nb_SpatialSmoothing_a, Nb_SpatialSmoothing_b,
      Nb_5_First_Level_GLM, Nb_6_Second_Level_GLM, Nb_7_ROI_Analysis, Nb_RSA,
      Nb_FunctionalConnectivity, Nb_NetworkAnalysis_draft, Nb_NetworkAnalysis>>

NotebookNames ==
    <<"NiftiFiles", "3_Temporal_Filtering", "SpatialSmoothing_a", "SpatialSmoothing_b",
      "5_First_Level_GLM", "6_Second_Level_GLM", "7_ROI_Analysis", "RSA",
      "FunctionalConnectivity", "NetworkAnalysis_draft", "NetworkAnalysis">>

\* the files one notebook leaves on disk for another
HandoffFiles == {"first_level_models.p", "connectivity.csv"}

\* the statement about to run
Cur == Notebooks[nb][cellNo][stmtNo]

\* the notebook has run to its end
AtEnd == nb > 0 /\ cellNo > Len(Notebooks[nb])

\* the names of the first k bindings of a statement
FirstBound(st, k) == {st.binds[j] : j \in 1..k}

\* a `with` statement that bound its target only, its body binding nothing
BoundTargetOnly(st) ==
    IF st.kind = "for" THEN {FirstBound(st, k) : k \in 0..Len(st.binds)}
    ELSE IF st.kind = "with" THEN {FirstBound(st, 1)}
    ELSE {FirstBound(st, Len(st.binds))}

\* what a statement that runs to its end has bound: all its names, a loop those
\* of the iterations it made (none when there was nothing to iterate over)
BoundOnSuccess(st) ==
    IF st.kind = "for" THEN {FirstBound(st, k) : k \in 0..Len(st.binds)}
    ELSE {FirstBound(st, Len(st.binds))}

\* what a statement that raises has bound: a simple statement nothing, a
\* compound one the names bound before the failing point
BoundOnFailure(st) ==
    IF st.kind = "simple" THEN {{}}
    ELSE {FirstBound(st, k) : k \in 0..Len(st.binds)}

\* the file the statement reads is not there
FileMissing(st) == st.fread # "" /\ disk[st.fread] = "absent"

\* the statement after the current one runs next
ToNextStatement ==
    IF stmtNo < Len(Notebooks[nb][cellNo])
    THEN stmtNo' = stmtNo + 1 /\ UNCHANGED cellNo
    ELSE stmtNo' = 1 /\ cellNo' = cellNo + 1

\* the cell is abandoned: the first statement of the next cell runs next
ToNextCell == stmtNo' = 1 /\ cellNo' = cellNo + 1

\* np.loadtxt('connectivity.csv') of the network notebook sees the file as it is
NoteCsvRead(st) ==
    IF st.fread = "connectivity.csv" /\ NotebookNames[nb] = "NetworkAnalysis"
    THEN csvRead' = disk["connectivity.csv"]
    ELSE UNCHANGED csvRead

\* a fresh checkout next to the course data: no notebook has run, and
\* connectivity.csv is there only if it came with the data
InitNotebooks ==
    /\ nb = 1 /\ cellNo = 1 /\ stmtNo = 1
    /\ ns = {} /\ failures = 0 /\ nameErrors = {}
    /\ \E c \in {"absent", "supplied"} :
          disk = [f \in HandoffFiles |-> IF f = "connectivity.csv" THEN c ELSE "absent"]
    /\ csvRead = ""

NotebooksIdle ==
    /\ nb = 0 /\ cellNo = 0 /\ stmtNo = 0
    /\ ns = {} /\ failures = 0 /\ nameErrors = {}
    /\ disk = [f \in HandoffFiles |-> "absent"]
    /\ csvRead = ""

\* the statement runs to its end
NB_Run ==
    /\ nb > 0 /\ ~AtEnd
    /\ Cur.reads \subseteq ns /\ ~FileMissing(Cur)
    /\ \E b \in BoundOnSuccess(Cur) : ns' = ns \cup b
    /\ disk' = IF Cur.fwrite = "" THEN disk
               ELSE [disk EXCEPT ![Cur.fwrite] = NotebookNames[nb]]
    /\ NoteCsvRead(Cur)
    /\ ToNextStatement
    /\ UNCHANGED <<nb, failures, nameErrors>>
    /\ UNCHANGED <<helperVars, glmVars, patVars, fcVars>>

\* the statement reads a name the kernel has not bound: NameError ends the cell
NB_NameError ==
    /\ nb > 0 /\ ~AtEnd
    /\ ~(Cur.reads \subseteq ns)
    /\ nameErrors' = nameErrors \cup (Cur.reads \ ns)
    /\ \E b \in BoundOnFailure(Cur) : ns' = ns \cup b
    /\ ToNextCell
    /\ UNCHANGED <<nb, failures, disk, csvRead>>
    /\ UNCHANGED <<helperVars, glmVars, patVars, fcVars>>

\* a library call of the statement raises (always, when the file it reads is
\* missing), and the cell ends; a file being written may be left behind
NB_Fail ==
    /\ nb > 0 /\ ~AtEnd
    /\ Cur.reads \subseteq ns
    /\ \/ FileMissing(Cur)
       \/ Cur.calls /\ failures < MaxFailures
    /\ failures' = IF failures < MaxFailures THEN failures + 1 ELSE failures
    /\ \E b \in BoundOnFailure(Cur) : ns' = ns \cup b
    /\ \/ UNCHANGED disk
       \/ Cur.fwrite # "" /\ disk' = [disk EXCEPT ![Cur.fwrite] = NotebookNames[nb]]
    /\ NoteCsvRead(Cur)
    /\ ToNextCell
    /\ UNCHANGED <<nb, nameErrors>>
    /\ UNCHANGED <<helperVars, glmVars, patVars, fcVars>>

\* the next notebook is opened: a fresh kernel, the disk as the last one left it
NB_Open ==
    /\ AtEnd /\ nb < Len(Notebooks)
    /\ nb' = nb + 1 /\ cellNo' = 1 /\ stmtNo' = 1
    /\ ns' = {} /\ failures' = 0 /\ nameErrors' = {}
    /\ UNCHANGED <<disk, csvRead>>
    /\ UNCHANGED <<helperVars, glmVars, patVars, fcVars>>

(***************************************************************************)
(* Specifications.                                                         *)
(***************************************************************************)
HelpersIdle ==
    /\ helper = "" /\ pc = "" /\ bound = {} /\ exc = "" /\ heap = <<>> /\ old = NoOld
    /\ StatMapIdle /\ LabelsIdle /\ TestModelIdle

\* one helper call per behaviour, its arguments drawn from the bounded sets
InitHelpers ==
    /\ (InitStatMap \/ InitLabels \/ InitTestModel) /\ InitGLM /\ NotebooksIdle
    /\ PatternsIdle /\ FCIdle

NextHelpers ==
    \/ SM_Enter \/ SM_Loop \/ SM_Return
    \/ LC_ColorElem \/ LC_BindColors \/ LC_NetworkElem \/ LC_BindNetwork
    \/ TM_Enter \/ TM_Iter \/ TM_Return

SpecHelpers == InitHelpers /\ [][NextHelpers]_vars

\* notebook 5 run top to bottom, its last two cells run again, and the reading
\* notebooks opened and their load cell run at any moment
InitGLMRun == HelpersIdle /\ InitGLM /\ NotebooksIdle /\ PatternsIdle /\ FCIdle

NextGLM ==
    \/ W_Func \/ W_Conf \/ W_Read \/ W_Mask \/ W_Model \/ W_Events \/ W_EvRead \/ W_Fit
    \/ L_Init \/ L_Glob \/ L_Conf \/ L_Model \/ L_Fit \/ L_Append
    \/ SV_Open \/ SV_Dump \/ RD_Open \/ RD_Load

SpecGLM == InitGLMRun /\ [][NextGLM]_vars

\* every notebook run once, top to bottom, in lesson order
InitLessons == HelpersIdle /\ InitGLM /\ InitNotebooks /\ PatternsIdle /\ FCIdle

NextNotebooks == NB_Run \/ NB_NameError \/ NB_Fail \/ NB_Open

SpecNotebooks == InitLessons /\ [][NextNotebooks]_vars

\* 7_ROI_Analysis or the RSA notebook from the cell after its load cell on
InitPatternRun == HelpersIdle /\ InitGLM /\ NotebooksIdle /\ InitPatterns /\ FCIdle

NextPatterns ==
    \/ P_FirstUse \/ P_FirstContrast
    \/ P_Init \/ P_Reset \/ P_Contrast \/ P_Extract \/ P_Array
    \/ G_Init \/ G_Iter \/ G_Array
    \/ R2_Build \/ R3_Build

SpecPatterns == InitPatternRun /\ [][NextPatterns]_vars

\* the functional connectivity notebook, every cell run once, top to bottom
InitFCRun == HelpersIdle /\ InitGLM /\ NotebooksIdle /\ PatternsIdle /\ InitFC

NextFC == F_Atlas \/ F_Read \/ F_Load \/ F_Index \/ F_Values \/ F_Mask

SpecFC == InitFCRun /\ [][NextFC]_vars



(***************************************************************************)
(* Properties of the helpers.                                              *)
(***************************************************************************)
\* the value the returned image holds at voxel v
ResAt(v) == heap[res.data].flat[v]

StatMapDone == helper = "stat_map" /\ pc = "done"

\* C1 (as stated): with c_1 < ... < c_n the distinct atlas values other than the
\* smallest, and x of length n, the image stat_map returns holds x[k] wherever the
\* atlas holds c_k, and the background value wherever the atlas holds it.
C1_StatMapRemapsCodes ==
    LET a == old.atlas
        u == SortedSeq({a.flat[v] : v \in 1..Len(a.flat)})
        n == Len(u) - 1
    IN (StatMapDone /\ Len(old.x) = n) =>
          \A v \in 1..Len(a.flat) :
             /\ \A k \in 1..n : a.flat[v] = u[k + 1] => ResAt(v) = old.x[k]
             /\ a.flat[v] = u[1] => ResAt(v) = u[1]

\* C6: the helpers mutate neither their arguments nor any global: during and after
\* a call the atlas data and x (stat_map), the labels (set_color, set_network) and
\* the model and subject matrices (test_model) are what they were at the call.
C6_HelpersLeaveArgumentsAlone ==
    /\ helper = "stat_map" => heap[atlas_img.data] = old.atlas /\ x = old.x
    /\ helper = "labels" => labels = old.labels
    /\ helper = "test_model" =>
          /\ heap[tm_model] = old.model
          /\ Len(matrices) = Len(old.mats)
          /\ \A k \in 1..Len(matrices) : heap[matrices[k]] = old.mats[k]
          /\ DOMAIN heap = 1..(Len(old.mats) + 1)

\* a stat_map call that returned an image differing from the atlas, and a
\* test_model call that returned a value for every one of two matrices
C6_Witness ==
    \/ StatMapDone /\ heap[res.data] # old.atlas /\ zi = 2
    \/ helper = "test_model" /\ pc = "done" /\ Len(r_values) = 2

\* C7: the image stat_map returns has the array shape of the atlas data and the
\* affine of the atlas image.
C7_SameShapeAndAffine ==
    StatMapDone =>
       /\ heap[res.data].shape = old.atlas.shape
       /\ Len(heap[res.data].flat) = Product(old.atlas.shape)
       /\ res.affine = atlas_img.affine

\* a call on a volume of more than one row whose loop ran and changed a voxel
C7_Witness ==
    /\ StatMapDone /\ zi > 0 /\ heap[res.data] # old.atlas
    /\ old.atlas.shape[1] > 1 /\ atlas_img.affine = "affine_1mm"

\* l is a . "_" . b . "_" . t . rest with a, b, t free of "_" and rest empty or
\* starting with "_": t is the third '_'-separated field of l
NoSep(s) == \A q \in 1..Len(s) : s[q] # "_"
HasThirdField(l, t) ==
    \E p1 \in 1..Len(l), p2 \in 1..Len(l) :
       /\ p1 < p2 /\ l[p1] = "_" /\ l[p2] = "_"
       /\ NoSep(SubSeq(l, 1, p1 - 1)) /\ NoSep(SubSeq(l, p1 + 1, p2 - 1))
       /\ p2 + Len(t) <= Len(l)
       /\ SubSeq(l, p2 + 1, p2 + Len(t)) = t
       /\ NoSep(t)
       /\ (p2 + Len(t) = Len(l) \/ l[p2 + Len(t) + 1] = "_")

\* the network (1..7) of a label, 0 when its third field names none
NetworkOf(l) ==
    IF \E i \in 1..Len(networks) : HasThirdField(l, networks[i])
    THEN CHOOSE i \in 1..Len(networks) : HasThirdField(l, networks[i])
    ELSE 0

\* C10: a label whose third field is the i-th network name gets network i and the
\* i-th colour; node_colors and node_network have one entry per label, in label
\* order; two labels share a colour exactly when they share a network.
C10_NodesGetTheirNetwork ==
    helper = "labels" =>
       /\ \A j \in 1..Len(labels) :
             NetworkOf(labels[j]) # 0 =>
                /\ (pc = "node_colors" /\ j <= Len(acc)) => acc[j] = cmap[NetworkOf(labels[j])]
                /\ (pc = "node_network" /\ j <= Len(acc)) => acc[j] = NetworkOf(labels[j])
                /\ "node_colors" \in bound => node_colors[j] = cmap[NetworkOf(labels[j])]
                /\ "node_network" \in bound => node_network[j] = NetworkOf(labels[j])
       /\ "node_colors" \in bound => Len(node_colors) = Len(labels)
       /\ "node_network" \in bound => Len(node_network) = Len(labels)
       /\ pc = "raised" => \E j \in 1..Len(labels) : NetworkOf(labels[j]) = 0
       /\ pc = "done" =>
             \A j, k \in 1..Len(labels) :
                (node_colors[j] = node_colors[k]) <=> (node_network[j] = node_network[k])

\* both lists bound for two labels of different networks
C10_Witness ==
    /\ helper = "labels" /\ pc = "done" /\ Len(labels) = 2
    /\ node_network[1] # node_network[2] /\ node_colors[1] # node_colors[2]
    /\ node_network[2] = 7

\* the number of '_'-separated fields of l: one more than its separators
NumFields(l) == Cardinality({q \in 1..Len(l) : l[q] = "_"}) + 1

\* the first label that names no network, 0 when every label names one
FirstBadLabel ==
    IF \E j \in 1..Len(labels) : NetworkOf(labels[j]) = 0
    THEN CHOOSE j \in 1..Len(labels) :
            /\ NetworkOf(labels[j]) = 0
            /\ \A k \in 1..(j - 1) : NetworkOf(labels[k]) # 0
    ELSE 0

\* C11: a label whose third field is none of the seven names makes the call
\* fail with KeyError, a label of fewer than three fields with IndexError; the
\* comprehension then binds nothing: with such a label among the labels neither
\* node_colors nor node_network is ever bound, and no partial list is kept.
C11_BadLabelRaises ==
    helper = "labels" =>
       /\ FirstBadLabel # 0 =>
             /\ "node_colors" \notin bound /\ "node_network" \notin bound
             /\ node_colors = <<>> /\ node_network = <<>>
             /\ pc \in {"node_colors", "raised"}
             /\ pc = "node_colors" => Len(acc) < FirstBadLabel
       /\ pc = "raised" =>
             /\ FirstBadLabel # 0
             /\ exc = (IF NumFields(labels[FirstBadLabel]) < 3 THEN "IndexError"
                       ELSE "KeyError")
             /\ acc = <<>>

\* the second of two labels has a third field that is no network name: the
\* colour of the first was computed, then the call on the second raised
C11_Witness ==
    /\ helper = "labels" /\ pc = "raised" /\ exc = "KeyError"
    /\ Len(labels) = 2 /\ FirstBadLabel = 2 /\ NumFields(labels[2]) >= 3


\* the correlation of a model with 1 - s, summed cell by cell over (row, column)
TM_Pairs == (1..NCond) \X (1..NCond)
TM_At(a, ij) == a.flat[(ij[1] - 1) * a.shape[2] + ij[2]]
RECURSIVE TM_Sum(_, _, _, _)
TM_Sum(todo, m, s, what) ==
    IF todo = {} THEN 0
    ELSE LET ij == CHOOSE e \in todo : TRUE
             u == TM_At(m, ij)
             v == 1 - TM_At(s, ij)
         IN (CASE what = "u" -> u
               [] what = "v" -> v
               [] what = "uv" -> u * v
               [] what = "uu" -> u * u
               [] what = "vv" -> v * v)
            + TM_Sum(todo \ {ij}, m, s, what)
TM_Expected(m, s) ==
    LET n == Cardinality(TM_Pairs)
        su == TM_Sum(TM_Pairs, m, s, "u")
        sv == TM_Sum(TM_Pairs, m, s, "v")
    IN [num |-> n * TM_Sum(TM_Pairs, m, s, "uv") - su * sv,
        den2 |-> (n * TM_Sum(TM_Pairs, m, s, "uu") - su * su)
                 * (n * TM_Sum(TM_Pairs, m, s, "vv") - sv * sv)]
\* C16: test_model returns one r per element of subject_matrices, in order; the
\* k-th is the correlation of the model RDM with 1 - subject_matrices[k], both
\* flattened to the same length and paired cell by cell at the same row and
\* column.
C16_OneCorrelationPerSubject ==
    (helper = "test_model" /\ pc \in {"loop", "done"}) =>
       /\ pc = "done" => Len(r_values) = Len(old.mats)
       /\ Len(r_values) <= Len(old.mats)
       /\ Len(old.model.flat) = NCond * NCond
       /\ \A k \in 1..Len(r_values) :
             /\ Len(old.mats[k].flat) = Len(old.model.flat)
             /\ r_values[k] = TM_Expected(old.model, old.mats[k])
C16_Witness ==
    /\ helper = "test_model" /\ pc = "done"
    /\ old.model = Rdm3Values
    /\ Len(r_values) = 2 /\ old.mats[1] # old.mats[2]
    /\ r_values[1] # r_values[2] /\ r_values[2].den2 > 0

(***************************************************************************)
(* Properties of notebook 5's kernel and of the hand-off of its models.    *)
(***************************************************************************)
\* the model glms holds at place i
GlmAt(i) == models[glms[i]]

\* m was fitted on the files of subject s and of no other
FittedOn(m, s) ==
    /\ m.fitted
    /\ Len(m.imgs) = NRuns /\ Len(m.confounds) = NRuns
    /\ \A r \in 1..NRuns : m.imgs[r] = <<"bold", s, r>> /\ m.confounds[r] = <<"motion", s, r>>

\* C2: whenever a reading notebook has loaded first_level_models.p, its glms is
\* the list the save cell of notebook 5 dumped last before the load (same length,
\* same order, element i the model of subject_numbers[i]); while the save cell
\* has never run the load fails with FileNotFoundError and glms stays unbound.
C2_LoadedIsLastDumped ==
    /\ rd_bound =>
          /\ lastDump.dumped
          /\ rd_glms = rd_src
          /\ \A i \in 1..Len(rd_glms) : FittedOn(rd_glms[i], subject_numbers[i])
    /\ ~pfile.exists => ~rd_bound /\ rd_exc \in {"", "FileNotFoundError"}
C2_Witness ==
    /\ rd_bound /\ reader = "open" /\ Len(rd_glms) = NSubj
    /\ reruns = MaxReruns /\ g_pc = "end" /\ rd_glms = lastDump.list

\* a statement of notebook 5 raises in this step
FailureStep == g_pc' # g_pc /\ g_exc' # ""

\* C5: when a statement of a cell raises, the cell ends there: the first
\* statement of the next cell is the next to run (no later statement of the
\* cell, no retry), and every binding made before is as it was.
C5_FailureEndsTheCell ==
    [][FailureStep =>
          /\ g_pc' = NextCell(CellOf(g_pc))
          /\ CellOf(g_pc') # CellOf(g_pc)
          /\ bindings' = bindings]_vars
C5_Witness ==
    /\ g_exc = "ValueError" /\ g_pc = "save_open"
    /\ Len(glms) = 3 /\ si = 3 /\ "model" \in g_bound /\ ~models[model].fitted

\* the subject loop has run to completion
LoopCompleted == g_pc \in {"save_open", "save_dump", "end"} /\ si = NSubj

\* C8: after the subject loop has run to completion glms holds one fitted model
\* per entry of subject_numbers, in that order, each a model object of its own,
\* the i-th fitted on the images and motion parameters of subject_numbers[i] only.
C8_OneModelPerSubject ==
    LoopCompleted =>
       /\ Len(glms) = NSubj
       /\ \A i \in 1..NSubj : FittedOn(GlmAt(i), subject_numbers[i])
       /\ \A i, j \in 1..NSubj : i # j => glms[i] # glms[j]
C8_Witness ==
    /\ LoopCompleted /\ g_pc = "end" /\ reruns = MaxReruns
    /\ GlmAt(NSubj).imgs[NRuns] = <<"bold", "08", NRuns>>

\* C9: every model the loop has fitted was given the very events list the
\* walkthrough loaded, and no step of the loop cell rebinds or changes events
\* or brain_mask.
C9_EventsReused ==
    [][/\ \A i \in 1..Len(glms') : GlmAt(i)'.events = events'
       /\ CellOf(g_pc) = "loop" =>
             /\ events' = events /\ brain_mask' = brain_mask
             /\ ("events" \in g_bound') = ("events" \in g_bound)
             /\ ("brain_mask" \in g_bound') = ("brain_mask" \in g_bound)]_vars
C9_Witness ==
    /\ LoopCompleted /\ Len(glms) = NSubj
    /\ events.id = 1 /\ Len(events.items) = NRuns
    /\ GlmAt(1).events = events /\ GlmAt(NSubj).events = events
    /\ brain_mask = "MNI_brain_mask.nii.gz"

(***************************************************************************)
(* Properties of the notebooks run in lesson order.                        *)
(***************************************************************************)
\* C3: when the network notebook reads connectivity.csv, the file on disk is
\* the one the functional-connectivity notebook wrote.
C3_CsvWrittenByFunctionalConnectivity ==
    csvRead # "" => csvRead = "FunctionalConnectivity"

\* C4: in a kernel where no call has failed every name the next statement reads
\* is bound, by a statement of the same notebook that ran before it, and no
\* cell has ended in a NameError.
C4_NamesBoundBeforeUse ==
    (nb > 0 /\ failures = 0) =>
       /\ nameErrors = {}
       /\ ~AtEnd => Cur.reads \subseteq ns
C4_Witness ==
    /\ nb > 0 /\ NotebookNames[nb] = "NetworkAnalysis" /\ AtEnd
    /\ failures = 0 /\ nameErrors = {}
    /\ {"res", "node_colors", "cmat", "stat_map"} \subseteq ns

(***************************************************************************)
(* Properties of the condition loops, the group loop and the model RDMs.   *)
(***************************************************************************)
\* the values the region holds for the k-th model of glms under condition c
PatternRow(c, k) == [v \in 1..NVox |-> <<p_glms[k], conditions[c], v>>]

\* the condition loop has run to its end in this kernel
ConditionLoopDone ==
    IF p_nb = "RSA" THEN "pattern_array" \in p_bound
    ELSE p_pc = "done" /\ p_ci = NCond

\* C12: param_maps is reset when a condition starts, so an extraction is given
\* exactly len(glms) maps, those of its condition in glms order; the container
\* gets one entry per condition in conditions order, each with one row (one
\* mean) per subject, and pattern_array is condition x subject x voxel.
C12_OneMapPerModelPerCondition ==
    /\ p_pc = "p_extract" =>
          /\ Len(param_maps) = Len(p_glms)
          /\ \A k \in 1..Len(param_maps) :
                param_maps[k] = <<"beta", p_glms[k], conditions[p_ci + 1]>>
    /\ \A c \in 1..Len(pattern_list) :
          /\ Len(pattern_list[c]) = Len(p_glms)
          /\ \A k \in 1..Len(p_glms) : pattern_list[c][k] = PatternRow(c, k)
    /\ \A c \in 1..Len(condition_means) :
          /\ condition_means[c][1] = conditions[c]
          /\ Len(condition_means[c][2]) = Len(p_glms)
          /\ \A k \in 1..Len(p_glms) :
                condition_means[c][2][k] = <<"mean", PatternRow(c, k)>>
    /\ ConditionLoopDone =>
          IF p_nb = "RSA"
          THEN /\ Len(pattern_list) = NCond
               /\ pattern_array.shape = <<NCond, Len(p_glms), NVox>>
               /\ pattern_array.data = pattern_list
          ELSE Len(condition_means) = NCond
C12_Witness ==
    /\ p_nb = "RSA" /\ "pattern_array" \in p_bound
    /\ Len(p_glms) = 2 /\ Len(pattern_list) = NCond
    /\ pattern_array.data[NCond][2] = PatternRow(NCond, 2)

\* C13: the group loop leaves one correlation matrix per subject of
\* pattern_array's subject axis, that is per model of glms, in subject order;
\* matrix i is len(conditions) x len(conditions) and correlates the patterns
\* of subject i under every two conditions.
C13_OneMatrixPerSubject ==
    (p_nb = "RSA" /\ p_pc \in {"g_iter", "g_array", "rdm2", "rdm3", "done"}) =>
       /\ \A i \in 1..Len(grp_matrices) :
             /\ i <= Len(p_glms)
             /\ grp_matrices[i].shape = <<NCond, NCond>>
             /\ \A a, b \in 1..NCond :
                   grp_matrices[i].cells[a][b] = <<"r", PatternRow(a, i), PatternRow(b, i)>>
       /\ p_gi = GroupRange =>
             /\ Len(grp_matrices) = Len(p_glms)
             /\ Len(grp_matrices) = pattern_array.shape[2]
C13_Witness ==
    /\ p_nb = "RSA" /\ p_pc = "rdm2" /\ p_gi = GroupRange
    /\ Len(grp_matrices) = NSubj /\ Len(p_glms) = NSubj

\* the groups of the second and of the third model
Groups2 == {{"Arm", "Grasp"}, {"Eye", "Finger", "Mouth", "Speech", "Toes", "Touch"}}
Groups3 == {{"Arm", "Grasp"}, {"Toes", "Finger", "Touch"}, {"Eye", "Mouth", "Speech"}}
CondSet == {conditions[k] : k \in 1..NCond}

\* C14: rdm_2[i][j] is 0 exactly when conditions i and j are both in
\* {Arm, Grasp} or both among the six others, i = j included, and 1 otherwise.
C14_Rdm2IsTwoGroups ==
    "rdm_2" \in p_bound =>
       /\ rdm_2.index = conditions /\ rdm_2.columns = conditions
       /\ \A i, j \in CondSet :
             Cell(rdm_2, i, j) = (IF \E g \in Groups2 : i \in g /\ j \in g THEN 0 ELSE 1)
C14_Witness ==
    /\ "rdm_2" \in p_bound
    /\ Cell(rdm_2, "Eye", "Touch") = 0 /\ Cell(rdm_2, "Finger", "Eye") = 0
    /\ Cell(rdm_2, "Arm", "Grasp") = 0 /\ Cell(rdm_2, "Arm", "Eye") = 1

\* C15: rdm_3[i][j] is 0 exactly when conditions i and j are in the same group
\* of {Arm, Grasp}, {Toes, Finger, Touch}, {Eye, Mouth, Speech}, and 1 otherwise.
C15_Rdm3IsThreeGroups ==
    "rdm_3" \in p_bound =>
       /\ rdm_3.index = conditions /\ rdm_3.columns = conditions
       /\ \A i, j \in CondSet :
             Cell(rdm_3, i, j) = (IF \E g \in Groups3 : i \in g /\ j \in g THEN 0 ELSE 1)
C15_Witness ==
    /\ "rdm_3" \in p_bound
    /\ Cell(rdm_3, "Toes", "Finger") = 0 /\ Cell(rdm_3, "Speech", "Eye") = 0
    /\ Cell(rdm_3, "Eye", "Finger") = 1 /\ Cell(rdm_3, "Grasp", "Arm") = 0

(***************************************************************************)
(* Properties of the functional connectivity notebook.                     *)
(***************************************************************************)
\* the cell of that number has run, and to its end
RanWell(n) == Len(f_exc) >= n /\ f_exc[n] = ""

\* C17: with every cell run once, top to bottom, the image without its first
\* volume and the confounds without their first row are both one shorter than
\* loaded, equally long, and row k of the confounds is the row recorded for
\* volume k of the image.
C17_ConfoundsStayAligned ==
    /\ RanWell(4) => /\ Len(func_img) = f_scan - 1
                     /\ \A k \in 1..Len(func_img) : func_img[k] = <<"vol", k + 1>>
    /\ RanWell(5) => /\ Len(confounds.rows) = f_scan - 1
                     /\ \A k \in 1..Len(confounds.rows) : confounds.rows[k] = <<"conf", k + 1>>
    /\ (RanWell(4) /\ RanWell(5)) =>
          /\ Len(func_img) = Len(confounds.rows)
          /\ \A k \in 1..Len(func_img) : func_img[k][2] = confounds.rows[k][2]
    /\ \A k \in 1..Len(fc_data) : fc_data[k][1][2] = fc_data[k][2][2]
C17_Witness ==
    /\ RanWell(4) /\ RanWell(5) /\ RanWell(6)
    /\ f_scan = MaxVols /\ Len(fc_data) = MaxVols - 1
    /\ fc_data[1] = <<<<"vol", 2>>, <<"conf", 2>>>>
====
